---- MODULE Spec2Model ----
(***************************************************************************)
(* rtctree: the Component node (src/rtctree/component.py) and its push     *)
(* observer (src/rtctree/sdo.py), as a state machine.                      *)
(*                                                                         *)
(* self    the Component object's cached fields (the slots with a leading  *)
(*         underscore in the source)                                       *)
(* remote  what the remote component answers to the calls made through     *)
(*         self._obj at this moment                                        *)
(* last    the operation that ran last: its name, argument, return value   *)
(*         or exception, the remote calls it issued, the callback it made  *)
(*         (current: the callbacks saw the object as the handler left it)  *)
(* reader  a second thread reading a cached property: where it is between  *)
(*         the mutex block of the property and its return statement        *)
(***************************************************************************)
EXTENDS Integers, Sequences, FiniteSets, TLC

VARIABLES self, remote, last, reader

vars == <<self, remote, last, reader>>

---------------------------------------------------------------------------
(* Bounds of the model.                                                    *)

\* Largest logical EC index passed to an indexed operation.
MaxIndex == 5
\* Largest EC handle passed to get_ec and carried by a pushed rtc_status.
MaxHandle == 2
\* Largest number of contexts in the participating collection after pushed
\* ATTACHED events.
MaxAttached == 2
\* Largest number of ports in the port list after pushed ADD events.
MaxPorts == 3
\* Largest value of the clock.
MaxTime == 1

\* The remote execution contexts the component can own / participate in.
OwnedContexts == {"o1", "o2"}
ParticipatingContexts == {"p1", "p2"}
Contexts == OwnedContexts \cup ParticipatingContexts

---------------------------------------------------------------------------
(* Program constants.  The source's values are the Python ints 1..5; they  *)
(* are kept as their decimal text so that a state collection can also hold *)
(* a status word the observer left unconverted (a Python str, which never  *)
(* equals an int).                                                         *)

INACTIVE == "1"
ACTIVE == "2"
ERROR == "3"
UNKNOWN == "4"
CREATED == "5"

States == {CREATED, INACTIVE, ACTIVE, ERROR, UNKNOWN}

\* RTC.LifeCycleState, the remote enumeration get_component_state answers in.
LifeCycleStates == {"CREATED_STATE", "INACTIVE_STATE", "ACTIVE_STATE", "ERROR_STATE"}

\* What the remote side answers about the component in one EC: is_alive, and
\* get_component_state (asked only when alive).
RemoteAnswers ==
    {[alive |-> FALSE, state |-> "CREATED_STATE"]}
        \cup {[alive |-> TRUE, state |-> s] : s \in LifeCycleStates}

DefaultAnswer == [alive |-> FALSE, state |-> "CREATED_STATE"]

---------------------------------------------------------------------------
(* Python values.                                                          *)

\* A slot that is None, or holds a value.
None == [some |-> FALSE, val |-> <<>>]
Some(v) == [some |-> TRUE, val |-> v]

\* Python's `not x` for a slot holding None, a list or a dict.
Falsy(x) == ~x.some \/ x.val = <<>>

\* Python's `not x` for a slot holding None or a str.
FalsyStr(x) == ~x.some \/ x.val = ""

Range(s) == {s[k] : k \in DOMAIN s}

\* F applied to the value of v, v worked out once.
Bind(v, F(_)) == CHOOSE r \in {F(y) : y \in {v}} : TRUE

\* Sequences without repetition over S: the lists a remote side can answer.
RECURSIVE InjSeqs(_)
InjSeqs(S) ==
    {<<>>} \cup UNION {{<<e>> \o t : t \in InjSeqs(S \ {e})} : e \in S}

\* Position of the first element of s satisfying Test, 0 when there is none.
FirstIndex(s, Test(_)) ==
    IF \E k \in DOMAIN s : Test(s[k])
    THEN CHOOSE k \in DOMAIN s : Test(s[k]) /\ \A j \in 1..(k - 1) : ~Test(s[j])
    ELSE 0

\* The handle the remote side gives each execution context
\* (self._obj.get_context_handle).  An owned and a participating context can
\* carry the same handle; a participating handle need not be its logical index.
get_context_handle(ec) ==
    CASE ec = "o1" -> 0
      [] ec = "o2" -> 1
      [] ec = "p1" -> 0
      [] ec = "p2" -> 2

\* ExecutionContext(ec, handle): the local facade of one remote context.
ExecutionContext(ec) == [obj |-> ec, handle |-> get_context_handle(ec)]

---------------------------------------------------------------------------
(* A running handler: the object's fields as it has changed them so far,   *)
(* the remote calls it has issued, the (context, answer) pairs of the      *)
(* per-EC state queries among them, how many `with self._mutex` blocks it  *)
(* is inside, the fields it has assigned outside every such block, and the *)
(* place of the collections it has resolved an index or a handle to.       *)

NoTarget == [coll |-> "", idx |-> -1]

Ctx(s) == [self |-> s, calls |-> <<>>, locked |-> <<>>, asked |-> <<>>,
           lock |-> 0, unlocked |-> {}, target |-> NoTarget]

\* The handler returns v, unless a statement before the return has raised.
Return(x, v) ==
    IF "exc" \in DOMAIN x THEN x
    ELSE [self |-> x.self, calls |-> x.calls, locked |-> x.locked,
          asked |-> x.asked,
          ret |-> v, exc |-> "", target |-> x.target, cb |-> <<>>,
          held |-> -1, seen |-> x.self, unlocked |-> x.unlocked]

\* The handler raises e; what it did to the object before raising stays done.
Raise(x, e) ==
    IF "exc" \in DOMAIN x THEN x
    ELSE [self |-> x.self, calls |-> x.calls, locked |-> x.locked,
          asked |-> x.asked,
          ret |-> "", exc |-> e, target |-> NoTarget, cb |-> <<>>,
          held |-> -1, seen |-> x.self, unlocked |-> x.unlocked]

\* The statements F after the statement that gave v: they run when v has not
\* raised, and the exception goes on to the caller when it has.
Then(v, F(_)) == Bind(v, LAMBDA y : IF "exc" \in DOMAIN y THEN y ELSE F(y))

\* with self._mutex: Body; then the statements F after the block.  The
\* mutex is released when Body ends, by an exception as well.
With(x, Body(_), F(_)) ==
    Then(Body([x EXCEPT !.lock = @ + 1]), LAMBDA y : F([y EXCEPT !.lock = @ - 1]))

\* self.<field> = v, by a handler that may be outside the mutex.
Store(x, field, v) ==
    [x EXCEPT !.self[field] = v,
              !.unlocked = IF x.lock = 0 THEN @ \cup {field} ELSE @]

\* self._call_cb(event, args): the callbacks registered for the event are
\* called with the object as it is at this point.
_call_cb(x, event, args) ==
    [Return(x, "None") EXCEPT !.cb = <<event>> \o args, !.held = x.lock,
                              !.seen = x.self, !.target = x.target]

\* The running handler after it has issued the remote calls `names`; the
\* calls issued inside a `with self._mutex` block are kept apart.
Issued(x, names) ==
    [x EXCEPT !.calls = @ \o names,
              !.locked = IF x.lock > 0 THEN @ \o names ELSE @]

\* The remote call `name` issued by the running handler: it fails with a
\* transport error when the remote side has that call down.
Call(x, name, F(_)) ==
    IF name \in remote.down
    THEN Raise(Issued(x, <<name>>), "TransportError")
    ELSE F(Issued(x, <<name>>))

\* How often a remote call occurs among the calls issued.
Count(calls, name) == Cardinality({k \in DOMAIN calls : calls[k] = name})

---------------------------------------------------------------------------
(* The lazily cached properties.  Each takes the running handler and gives *)
(* it back with the slot populated; the property's value is the slot.      *)

\* The call `name` issued once for each element of a list the remote side
\* has returned, inside a list comprehension: the first of them fails when
\* the call is down.
CallEach(x, list, name, F(_)) ==
    IF list # <<>> /\ name \in remote.down
    THEN Raise(Issued(x, <<name>>), "TransportError")
    ELSE F(Issued(x, [k \in DOMAIN list |-> name]))

\* self._obj.get_context_handle(ec) for ec in ...
Handles(x, ecs, F(_)) == CallEach(x, ecs, "get_context_handle", F)

\* Component.owned_ecs
owned_ecs(x) ==
    With(x, LAMBDA xw :
    IF Falsy(xw.self._owned_ecs)
    THEN Call(xw, "get_owned_contexts", LAMBDA x1 :
            Handles(x1, remote.owned, LAMBDA x2 :
                [x2 EXCEPT !.self._owned_ecs =
                    Some([k \in 1..Len(remote.owned) |->
                            ExecutionContext(remote.owned[k])])]))
    ELSE xw,
    LAMBDA y : y)

\* Component.participating_ecs
participating_ecs(x) ==
    With(x, LAMBDA xw :
    IF Falsy(xw.self._participating_ecs)
    THEN Call(xw, "get_participating_contexts", LAMBDA x1 :
            Handles(x1, remote.participating, LAMBDA x2 :
                [x2 EXCEPT !.self._participating_ecs =
                    Some([k \in 1..Len(remote.participating) |->
                            ExecutionContext(remote.participating[k])])]))
    ELSE xw,
    LAMBDA y : y)

\* _get_ec_state that does not ask is_alive first.
_get_ec_state_NoAliveTest(answer) ==
    IF answer.state = "ACTIVE_STATE" THEN ACTIVE
    ELSE IF answer.state = "ERROR_STATE" THEN ERROR
    ELSE IF answer.state = "INACTIVE_STATE" THEN INACTIVE
    ELSE UNKNOWN

\* Component._get_ec_state, from the remote side's answer for that EC.
_get_ec_state(answer) ==
    IF answer.alive
    THEN IF answer.state = "ACTIVE_STATE" THEN ACTIVE
         ELSE IF answer.state = "ERROR_STATE" THEN ERROR
         ELSE IF answer.state = "INACTIVE_STATE" THEN INACTIVE
         ELSE UNKNOWN
    ELSE CREATED

\* The remote calls _get_ec_state issues for each EC of a list in turn.
RECURSIVE StateCalls(_, _)
StateCalls(ecs, ans) ==
    IF ecs = <<>> THEN <<>>
    ELSE (IF ans[Head(ecs).obj].alive
          THEN <<"is_alive", "get_component_state">>
          ELSE <<"is_alive">>) \o StateCalls(Tail(ecs), ans)

\* states = []; for ec in ecs: states.append(self._get_ec_state(ec))
StatesOf(ecs, ans) == [k \in 1..Len(ecs) |-> _get_ec_state(ans[ecs[k].obj])]

\* The running handler after the queries StatesOf makes.
PullStates(x, ecs, ans) ==
    [Issued(x, StateCalls(ecs, ans)) EXCEPT
        !.asked = @ \o [k \in 1..Len(ecs) |-> <<ecs[k].obj, ans[ecs[k].obj]>>]]

\* Component.owned_ec_states
owned_ec_states(x, ans) ==
    With(x, LAMBDA xw :
    IF Falsy(xw.self._owned_ec_states)
    THEN Then(owned_ecs(xw), LAMBDA x1 :
            IF x1.self._owned_ecs.val # <<>>
            THEN [PullStates(x1, x1.self._owned_ecs.val, ans) EXCEPT
                    !.self._owned_ec_states =
                        Some(StatesOf(x1.self._owned_ecs.val, ans))]
            ELSE [x1 EXCEPT !.self._owned_ec_states = Some(<<>>)])
    ELSE xw,
    LAMBDA y : y)

\* Component.participating_ec_states
participating_ec_states(x, ans) ==
    With(x, LAMBDA xw :
    IF Falsy(xw.self._participating_ec_states)
    THEN Then(participating_ecs(xw), LAMBDA x1 :
            IF x1.self._participating_ecs.val # <<>>
            THEN [PullStates(x1, x1.self._participating_ecs.val, ans) EXCEPT
                    !.self._participating_ec_states =
                        Some(StatesOf(x1.self._participating_ecs.val, ans))]
            ELSE [x1 EXCEPT !.self._participating_ec_states = Some(<<>>)])
    ELSE xw,
    LAMBDA y : y)

\* ports.parse_port: the facade of a remote port carries the port's name and
\* its connection state.
parse_port(port) == [name |-> port, connected |-> port \in remote.connected]

\* Port.reparse_connections: the facade takes the connection state the
\* remote port has now.
reparse_connections(p) == [p EXCEPT !.connected = p.name \in remote.connected]

\* Component.ports
ports(x) ==
    With(x, LAMBDA xw :
    IF Falsy(xw.self._ports)
    THEN Call(xw, "get_ports", LAMBDA x1 :
            CallEach(x1, remote.ports, "get_port_profile", LAMBDA x2 :
                [x2 EXCEPT !.self._ports =
                    Some([k \in 1..Len(remote.ports) |-> parse_port(remote.ports[k])])]))
    ELSE xw,
    LAMBDA y : y)

\* Component._parse_configuration
_parse_configuration(x) ==
    Call(x, "get_configuration", LAMBDA x1 :
    Call([x1 EXCEPT !.self._conf_sets = Some(<<>>)], "get_configuration_sets",
         LAMBDA x2 :
    Call([x2 EXCEPT !.self._conf_sets = Some(remote.conf_sets)],
         "get_active_configuration_set", LAMBDA x3 :
        [x3 EXCEPT !.self._active_conf_set = Some(remote.active)])))

\* Component.conf_sets
conf_sets(x) ==
    With(x, LAMBDA xw :
    IF Falsy(xw.self._conf_sets) THEN _parse_configuration(xw) ELSE xw,
    LAMBDA y : y)

\* Component._parse_profile.  _profile stands for the six fields assigned
\* from the profile before the parent is asked (instance name to category).
_parse_profile(x) ==
    With(x, LAMBDA x0 :
        Call(x0, "get_component_profile", LAMBDA x1 :
        Then(IF remote.parent # ""
             THEN Call([x1 EXCEPT !.self._profile = remote.profile],
                       "parent.get_component_profile", LAMBDA x2 :
                      [x2 EXCEPT !.self._parent_obj = remote.parent])
             ELSE [x1 EXCEPT !.self._profile = remote.profile,
                             !.self._parent_obj = ""], LAMBDA x3 :
            [x3 EXCEPT !.self._properties = remote.properties])),
    LAMBDA x4 : x4)

---------------------------------------------------------------------------
(* The merged state.                                                       *)

\* merge_state with `current != self.ERROR` left out of the ACTIVE branch.
merge_state_ActiveOverError(current, new) ==
    IF new = ERROR THEN ERROR
    ELSE IF new = ACTIVE THEN ACTIVE
    ELSE IF new = INACTIVE /\ current \notin {ACTIVE, ERROR} THEN INACTIVE
    ELSE IF new = CREATED /\ current \notin {ACTIVE, ERROR, INACTIVE} THEN CREATED
    ELSE IF current \notin {ACTIVE, ERROR, INACTIVE, CREATED} THEN UNKNOWN
    ELSE current

\* Component.state.merge_state
merge_state(current, new) ==
    IF new = ERROR THEN ERROR
    ELSE IF new = ACTIVE /\ current # ERROR THEN ACTIVE
    ELSE IF new = INACTIVE /\ current \notin {ACTIVE, ERROR} THEN INACTIVE
    ELSE IF new = CREATED /\ current \notin {ACTIVE, ERROR, INACTIVE} THEN CREATED
    ELSE IF current \notin {ACTIVE, ERROR, INACTIVE, CREATED} THEN UNKNOWN
    ELSE current

\* for ec_state in states: merged_state = merge_state(merged_state, ec_state)
RECURSIVE FoldStates(_, _)
FoldStates(merged_state, states) ==
    IF states = <<>> THEN merged_state
    ELSE FoldStates(merge_state(merged_state, Head(states)), Tail(states))

\* Component.state without its first two lines: an empty pair of collections
\* merges to the initial CREATED.
MergedState_NoEmptyCase(owned_states, participating_states) ==
    FoldStates(FoldStates(CREATED, owned_states), participating_states)

\* The body of Component.state once both state collections are at hand:
\* UNKNOWN when both are empty, else the fold from CREATED over the owned and
\* then the participating states.
MergedState(owned_states, participating_states) ==
    IF owned_states = <<>> /\ participating_states = <<>>
    THEN UNKNOWN
    ELSE FoldStates(FoldStates(CREATED, owned_states), participating_states)

\* Component.state.  `not A and not B` reads B only when A is empty; the two
\* `if self.X_ec_states:` that follow read each property once more.
state(x, ans) ==
    With(x, LAMBDA xw :
    Then(owned_ec_states(xw, ans), LAMBDA x1 :
    Then(IF x1.self._owned_ec_states.val = <<>>
         THEN participating_ec_states(x1, ans) ELSE x1, LAMBDA x2 :
        IF x1.self._owned_ec_states.val = <<>>
           /\ x2.self._participating_ec_states.val = <<>>
        THEN Return(x2, MergedState(x2.self._owned_ec_states.val,
                                    x2.self._participating_ec_states.val))
        ELSE Then(owned_ec_states(x2, ans), LAMBDA x3 :
             Then(participating_ec_states(x3, ans), LAMBDA x4 :
                Return(x4, MergedState(x4.self._owned_ec_states.val,
                                       x4.self._participating_ec_states.val)))))),
    LAMBDA y : y)

---------------------------------------------------------------------------
(* Execution contexts by logical index and by handle.                      *)

\* The index translation without `ec_index -= len(self.owned_ecs)`.
ResolveIndex_NoSubtract(x, ec_index) ==
    Then(owned_ecs(x), LAMBDA x1 :
        IF ec_index >= Len(x1.self._owned_ecs.val)
        THEN Then(owned_ecs(x1), LAMBDA x2 :
             Then(participating_ecs(x2), LAMBDA x3 :
                IF ec_index >= Len(x3.self._participating_ecs.val)
                THEN [x |-> x3, bad |-> TRUE, coll |-> "", idx |-> ec_index]
                ELSE [x |-> x3, bad |-> FALSE, coll |-> "participating",
                      idx |-> ec_index]))
        ELSE [x |-> x1, bad |-> FALSE, coll |-> "owned", idx |-> ec_index])

\* The index translation every indexed operation opens with:
\*   if ec_index >= len(self.owned_ecs):
\*       ec_index -= len(self.owned_ecs)
\*       if ec_index >= len(self.participating_ecs): raise BadECIndexError
\* Gives the running handler, the collection and the local index, or bad.
ResolveIndex(x, ec_index) ==
    Then(owned_ecs(x), LAMBDA x1 :
        IF ec_index >= Len(x1.self._owned_ecs.val)
        THEN Then(owned_ecs(x1), LAMBDA x2 :
             Then(participating_ecs(x2), LAMBDA x3 :
             Bind(ec_index - Len(x2.self._owned_ecs.val), LAMBDA local :
                IF local >= Len(x3.self._participating_ecs.val)
                THEN [x |-> x3, bad |-> TRUE, coll |-> "", idx |-> local]
                ELSE [x |-> x3, bad |-> FALSE, coll |-> "participating",
                      idx |-> local])))
        ELSE [x |-> x1, bad |-> FALSE, coll |-> "owned", idx |-> ec_index])

\* list[idx] exists, for a Python list and idx >= 0.
InRange(list, idx) == idx + 1 \in DOMAIN list

\* Component.activate_in_ec (deactivate_in_ec and reset_in_ec differ in the
\* remote call alone).
activate_in_ec(x, ec_index) ==
    With(x, LAMBDA xw :
    Then(ResolveIndex(xw, ec_index), LAMBDA r :
        IF r.bad THEN Raise(r.x, "BadECIndexError")
        ELSE [Return(Issued(r.x, <<"activate_component">>), "None")
                EXCEPT !.target =
                    [coll |-> r.coll, idx |-> r.idx,
                     ec |-> IF r.coll = "owned"
                            THEN r.x.self._owned_ecs.val[r.idx + 1]
                            ELSE r.x.self._participating_ecs.val[r.idx + 1]]]),
    LAMBDA y : y)

\* The state collection of one of the two collections, read through its
\* property.
StatesIn(x, coll) ==
    IF coll = "owned" THEN x.self._owned_ec_states.val
    ELSE x.self._participating_ec_states.val

\* Component.state_in_ec
state_in_ec(x, ec_index, ans) ==
    With(x, LAMBDA xw :
    Then(ResolveIndex(xw, ec_index), LAMBDA r :
        IF r.bad THEN Raise(r.x, "BadECIndexError")
        ELSE Then(IF r.coll = "owned" THEN owned_ec_states(r.x, ans)
                  ELSE participating_ec_states(r.x, ans), LAMBDA x1 :
                IF InRange(StatesIn(x1, r.coll), r.idx)
                THEN [Return(x1, StatesIn(x1, r.coll)[r.idx + 1]) EXCEPT
                        !.target = [coll |-> r.coll, idx |-> r.idx]]
                ELSE [Raise(x1, "IndexError") EXCEPT
                        !.target = [coll |-> r.coll, idx |-> r.idx]])),
    LAMBDA y : y)

\* The context at a resolved position, read through its property.
ECsIn(x, coll) ==
    IF coll = "owned" THEN x.self._owned_ecs.val
    ELSE x.self._participating_ecs.val

\* Component.deactivate_in_ec
deactivate_in_ec(x, ec_index) ==
    With(x, LAMBDA xw :
    Then(ResolveIndex(xw, ec_index), LAMBDA r :
        IF r.bad THEN Raise(r.x, "BadECIndexError")
        ELSE [Return(Issued(r.x, <<"deactivate_component">>), "None")
                EXCEPT !.target =
                    [coll |-> r.coll, idx |-> r.idx,
                     ec |-> ECsIn(r.x, r.coll)[r.idx + 1]]]),
    LAMBDA y : y)

\* Component.reset_in_ec
reset_in_ec(x, ec_index) ==
    With(x, LAMBDA xw :
    Then(ResolveIndex(xw, ec_index), LAMBDA r :
        IF r.bad THEN Raise(r.x, "BadECIndexError")
        ELSE [Return(Issued(r.x, <<"reset_component">>), "None")
                EXCEPT !.target =
                    [coll |-> r.coll, idx |-> r.idx,
                     ec |-> ECsIn(r.x, r.coll)[r.idx + 1]]]),
    LAMBDA y : y)

\* refresh_state_in_ec with the participating collection indexed first.
refresh_state_in_ec_ParticipatingFirst(x, ec_index, ans) ==
    With(x, LAMBDA xw :
    Then(participating_ecs(xw), LAMBDA x0 :
    Then(owned_ecs(x0), LAMBDA x1 :
    Bind(Len(x1.self._participating_ecs.val), LAMBDA m :
    Bind([coll |-> IF ec_index < m THEN "participating" ELSE "owned",
          idx |-> IF ec_index < m THEN ec_index ELSE ec_index - m], LAMBDA r :
        IF ~InRange(ECsIn(x1, r.coll), r.idx)
        THEN Raise(x1, "BadECIndexError")
        ELSE Bind(_get_ec_state(ans[ECsIn(x1, r.coll)[r.idx + 1].obj]), LAMBDA st :
             Then(IF r.coll = "owned"
                  THEN owned_ec_states(
                        PullStates(x1, <<ECsIn(x1, r.coll)[r.idx + 1]>>, ans), ans)
                  ELSE participating_ec_states(
                        PullStates(x1, <<ECsIn(x1, r.coll)[r.idx + 1]>>, ans), ans),
                  LAMBDA x2 :
                IF InRange(StatesIn(x2, r.coll), r.idx)
                THEN [Return(
                        IF r.coll = "owned"
                        THEN [x2 EXCEPT !.self._owned_ec_states.val[r.idx + 1] = st]
                        ELSE [x2 EXCEPT
                                !.self._participating_ec_states.val[r.idx + 1] = st],
                        st)
                      EXCEPT !.target = [coll |-> r.coll, idx |-> r.idx]]
                ELSE [Raise(x2, "IndexError") EXCEPT
                        !.target = [coll |-> r.coll, idx |-> r.idx]])))))),
    LAMBDA y : y)

\* Component.refresh_state_in_ec: the state is asked of the context at the
\* resolved position and stored at that position of the state collection.
refresh_state_in_ec(x, ec_index, ans) ==
    With(x, LAMBDA xw :
    Then(ResolveIndex(xw, ec_index), LAMBDA r :
        IF r.bad THEN Raise(r.x, "BadECIndexError")
        ELSE Bind(_get_ec_state(ans[ECsIn(r.x, r.coll)[r.idx + 1].obj]), LAMBDA st :
             Then(IF r.coll = "owned"
                  THEN owned_ec_states(
                        PullStates(r.x, <<ECsIn(r.x, r.coll)[r.idx + 1]>>, ans), ans)
                  ELSE participating_ec_states(
                        PullStates(r.x, <<ECsIn(r.x, r.coll)[r.idx + 1]>>, ans), ans),
                  LAMBDA x2 :
                IF InRange(StatesIn(x2, r.coll), r.idx)
                THEN [Return(
                        IF r.coll = "owned"
                        THEN [x2 EXCEPT !.self._owned_ec_states.val[r.idx + 1] = st]
                        ELSE [x2 EXCEPT
                                !.self._participating_ec_states.val[r.idx + 1] = st],
                        st)
                      EXCEPT !.target = [coll |-> r.coll, idx |-> r.idx]]
                ELSE [Raise(x2, "IndexError") EXCEPT
                        !.target = [coll |-> r.coll, idx |-> r.idx]]))),
    LAMBDA y : y)

\* get_ec with the two loops in the other order.
get_ec_ParticipatingFirst(x, ec_handle) ==
    With(x, LAMBDA xw :
    Then(participating_ecs(xw), LAMBDA x1 :
    Bind(FirstIndex(x1.self._participating_ecs.val,
                    LAMBDA ec : ec.handle = ec_handle), LAMBDA p :
        IF p # 0
        THEN [Return(x1, x1.self._participating_ecs.val[p]) EXCEPT
                !.target = [coll |-> "participating", idx |-> p - 1]]
        ELSE Then(owned_ecs(x1), LAMBDA x2 :
             Bind(FirstIndex(x2.self._owned_ecs.val,
                             LAMBDA ec : ec.handle = ec_handle), LAMBDA o :
                IF o # 0
                THEN [Return(x2, x2.self._owned_ecs.val[o]) EXCEPT
                        !.target = [coll |-> "owned", idx |-> o - 1]]
                ELSE Raise(x2, "NoECWithHandleError"))))),
    LAMBDA y : y)

\* Component.get_ec
get_ec(x, ec_handle) ==
    With(x, LAMBDA xw :
    Then(owned_ecs(xw), LAMBDA x1 :
    Bind(FirstIndex(x1.self._owned_ecs.val, LAMBDA ec : ec.handle = ec_handle),
         LAMBDA o :
        IF o # 0
        THEN [Return(x1, x1.self._owned_ecs.val[o]) EXCEPT
                !.target = [coll |-> "owned", idx |-> o - 1]]
        ELSE Then(participating_ecs(x1), LAMBDA x2 :
             Bind(FirstIndex(x2.self._participating_ecs.val,
                             LAMBDA ec : ec.handle = ec_handle), LAMBDA p :
                IF p # 0
                THEN [Return(x2, x2.self._participating_ecs.val[p]) EXCEPT
                        !.target = [coll |-> "participating", idx |-> p - 1]]
                ELSE Raise(x2, "NoECWithHandleError"))))),
    LAMBDA y : y)

\* get_ec_index with a participating context's own position returned.
get_ec_index_NoOffset(x, ec_handle) ==
    With(x, LAMBDA xw :
    Then(owned_ecs(xw), LAMBDA x1 :
    Bind(FirstIndex(x1.self._owned_ecs.val, LAMBDA ec : ec.handle = ec_handle),
         LAMBDA o :
        IF o # 0
        THEN Return(x1, o - 1)
        ELSE Then(participating_ecs(x1), LAMBDA x2 :
             Bind(FirstIndex(x2.self._participating_ecs.val,
                             LAMBDA ec : ec.handle = ec_handle), LAMBDA p :
                IF p # 0
                THEN Return(x2, p - 1)
                ELSE Raise(x2, "NoECWithHandleError"))))),
    LAMBDA y : y)

\* Component.get_ec_index
get_ec_index(x, ec_handle) ==
    With(x, LAMBDA xw :
    Then(owned_ecs(xw), LAMBDA x1 :
    Bind(FirstIndex(x1.self._owned_ecs.val, LAMBDA ec : ec.handle = ec_handle),
         LAMBDA o :
        IF o # 0
        THEN Return(x1, o - 1)
        ELSE Then(participating_ecs(x1), LAMBDA x2 :
             Bind(FirstIndex(x2.self._participating_ecs.val,
                             LAMBDA ec : ec.handle = ec_handle), LAMBDA p :
                IF p # 0
                THEN Then(owned_ecs(x2), LAMBDA x3 :
                        Return(x3, p - 1 + Len(x3.self._owned_ecs.val)))
                ELSE Raise(x2, "NoECWithHandleError"))))),
    LAMBDA y : y)

---------------------------------------------------------------------------
(* Configuration set management.                                           *)

\* ConfigurationSet.has_param
has_param(cs, param) == param \in DOMAIN cs.data

\* ConfigurationSet.set_param
set_param(cs, param, value) ==
    [cs EXCEPT !.data = [q \in DOMAIN cs.data \cup {param} |->
                            IF q = param THEN value ELSE cs.data[q]]]

\* Component.activate_conf_set
activate_conf_set(x, set_name) ==
    With(x, LAMBDA xw :
    Then(conf_sets(xw), LAMBDA x1 :
        IF set_name \notin DOMAIN x1.self._conf_sets.val
        THEN Raise(x1, "NoSuchConfSetError")
        ELSE Call(x1, "activate_configuration_set",
                  LAMBDA x2 : Return(x2, "None"))),
    LAMBDA y : y)

\* set_conf_set_value without the remote call.
set_conf_set_value_CacheOnly(x, set_name, param, value) ==
    With(x, LAMBDA xw :
    Then(conf_sets(xw), LAMBDA x1 :
        IF set_name \notin DOMAIN x1.self._conf_sets.val
        THEN Raise(x1, "NoSuchConfSetError")
        ELSE Then(conf_sets(x1), LAMBDA x2 :
            IF ~has_param(x2.self._conf_sets.val[set_name], param)
            THEN Raise(x2, "NoSuchConfParamError")
            ELSE Then(conf_sets(x2), LAMBDA x3 :
                 Return([x3 EXCEPT !.self._conf_sets.val[set_name] =
                                        set_param(@, param, value)], "None")))),
    LAMBDA y : y)

\* set_conf_set_value without the has_param test.
set_conf_set_value_NoParamTest(x, set_name, param, value) ==
    With(x, LAMBDA xw :
    Then(conf_sets(xw), LAMBDA x1 :
        IF set_name \notin DOMAIN x1.self._conf_sets.val
        THEN Raise(x1, "NoSuchConfSetError")
        ELSE Then(conf_sets(x1), LAMBDA x3 :
             Then(conf_sets([x3 EXCEPT !.self._conf_sets.val[set_name] =
                                set_param(@, param, value)]), LAMBDA x4 :
             Call(x4, "set_configuration_set_values",
                  LAMBDA x5 : Return(x5, "None"))))),
    LAMBDA y : y)

\* Component.set_conf_set_value
set_conf_set_value(x, set_name, param, value) ==
    With(x, LAMBDA xw :
    Then(conf_sets(xw), LAMBDA x1 :
        IF set_name \notin DOMAIN x1.self._conf_sets.val
        THEN Raise(x1, "NoSuchConfSetError")
        ELSE Then(conf_sets(x1), LAMBDA x2 :
            IF ~has_param(x2.self._conf_sets.val[set_name], param)
            THEN Raise(x2, "NoSuchConfParamError")
            ELSE Then(conf_sets(x2), LAMBDA x3 :
                 Then(conf_sets([x3 EXCEPT !.self._conf_sets.val[set_name] =
                                    set_param(@, param, value)]), LAMBDA x4 :
                 Call(x4, "set_configuration_set_values",
                      LAMBDA x5 : Return(x5, "None")))))),
    LAMBDA y : y)

\* Component.active_conf_set: None, or the set the cached name points at.
active_conf_set(x) ==
    With(x, LAMBDA xw :
    Then(conf_sets(xw), LAMBDA x1 :
        IF Falsy(x1.self._conf_sets) THEN Return(x1, None)
        ELSE IF FalsyStr(x1.self._active_conf_set) THEN Return(x1, None)
        ELSE Then(conf_sets(x1), LAMBDA x2 :
            IF x2.self._active_conf_set.val \in DOMAIN x2.self._conf_sets.val
            THEN Return(x2, Some(x2.self._conf_sets.val[x2.self._active_conf_set.val]))
            ELSE Raise(x2, "KeyError"))),
    LAMBDA y : y)

\* Component.active_conf_set_name
active_conf_set_name(x) ==
    With(x, LAMBDA xw :
    Then(conf_sets(xw), LAMBDA x1 :
        IF Falsy(x1.self._conf_sets) THEN Return(x1, "")
        ELSE IF FalsyStr(x1.self._active_conf_set) THEN Return(x1, "")
        ELSE Return(x1, x1.self._active_conf_set.val)),
    LAMBDA y : y)

---------------------------------------------------------------------------
(* Invalidation.                                                           *)

\* _reset_owned_ecs without `self._owned_ec_states = None`.
_reset_owned_ecs_KeepStates(x) == [x EXCEPT !.self._owned_ecs = None]

\* Component._reset_owned_ecs
_reset_owned_ecs(x) ==
    [x EXCEPT !.self._owned_ecs = None, !.self._owned_ec_states = None]

\* Component._reset_participating_ecs
_reset_participating_ecs(x) ==
    [x EXCEPT !.self._participating_ecs = None,
              !.self._participating_ec_states = None]

\* Component._reset_ports
_reset_ports(x) == [x EXCEPT !.self._ports = None]

---------------------------------------------------------------------------
(* Compositions.  The remote side's organisations are records with an      *)
(* organisation id and the list of the member components' names; a dict is *)
(* a function, the empty dict the empty function.                          *)

\* dict[key] = value
SetItem(dict, key, value) ==
    [k \in DOMAIN dict \cup {key} |-> IF k = key THEN value ELSE dict[k]]

\* del dict[key]
DelItem(dict, key) == [k \in DOMAIN dict \ {key} |-> dict[k]]

\* The Org facade that Component.organisations builds for a remote
\* organisation; the owner is the component itself.
Org(org) ==
    [sdo_id |-> "rtc", org_id |-> org.org_id, members |-> org.members,
     obj |-> org.org_id]

\* org.get_members() on the organisation a facade refers to.
get_members(obj) ==
    IF \E k \in DOMAIN remote.orgs : remote.orgs[k].org_id = obj
    THEN remote.orgs[CHOOSE k \in DOMAIN remote.orgs :
                        remote.orgs[k].org_id = obj].members
    ELSE <<>>

\* The loop of Component.organisations over the remote organisations: each
\* facade is appended to self._orgs as soon as it is built.
RECURSIVE organisations_loop(_, _)
organisations_loop(x, orgs) ==
    IF orgs = <<>> THEN x
    ELSE Call(x, "get_owner", LAMBDA x1 :
         Call(x1, "get_sdo_id", LAMBDA x2 :
         Call(x2, "get_organization_id", LAMBDA x3 :
         Call(x3, "get_members", LAMBDA x4 :
         CallEach(x4, Head(orgs).members, "get_sdo_id", LAMBDA x5 :
            organisations_loop(
                [x5 EXCEPT !.self._orgs = Append(@, Org(Head(orgs)))],
                Tail(orgs)))))))

\* Component.organisations
organisations(x) ==
    With(x, LAMBDA x0 :
        IF x0.self._orgs = <<>>
        THEN Call(x0, "get_owned_organizations", LAMBDA x1 :
                organisations_loop(x1, remote.orgs))
        ELSE x0,
    LAMBDA y : y)

\* The loop of Component.members over the organisations.
RECURSIVE members_loop(_, _)
members_loop(x, orgs) ==
    IF orgs = <<>> THEN x
    ELSE Call(x, "get_members", LAMBDA x1 :
            members_loop(
                [x1 EXCEPT !.self._members =
                    SetItem(@, Head(orgs).org_id, get_members(Head(orgs).obj))],
                Tail(orgs)))

\* Component.members
members(x) ==
    With(x, LAMBDA x0 :
        IF x0.self._members = <<>>
        THEN Then(organisations(x0), LAMBDA x1 :
                members_loop(x1, x1.self._orgs))
        ELSE x0,
    LAMBDA y : y)

\* Component.is_member for an instance name, as far as it changes the
\* handler: the calls it issues and the exception it raises.  `gone` are
\* the members the running handler has removed before.
is_member(x, rtc, gone) ==
    Call(x, "get_owned_organizations", LAMBDA x1 :
        IF remote.orgs = <<>> THEN Raise(x1, "NotCompositeError")
        ELSE Then(organisations(x1), LAMBDA x2 :
             Call(x2, "get_members", LAMBDA x3 :
             Bind(SelectSeq(get_members(x3.self._orgs[1].obj),
                            LAMBDA m : m \notin gone), LAMBDA ms :
             Bind(FirstIndex(ms, LAMBDA m : m = rtc), LAMBDA k :
                CallEach(x3, IF k = 0 THEN ms ELSE SubSeq(ms, 1, k),
                         "get_component_profile", LAMBDA x4 : x4))))))

\* What Component.is_member returns for an instance name.
IsMember(x, rtc, gone) ==
    /\ rtc \notin gone
    /\ \E k \in DOMAIN get_members(x.self._orgs[1].obj) :
            get_members(x.self._orgs[1].obj)[k] = rtc

\* for rtc in rtcs: if self.is_member(rtc): raise AlreadyInCompositionError
RECURSIVE add_members_loop(_, _)
add_members_loop(x, rtcs) ==
    IF rtcs = <<>> THEN x
    ELSE Then(is_member(x, Head(rtcs), {}), LAMBDA x1 :
            IF IsMember(x1, Head(rtcs), {})
            THEN Raise(x1, "AlreadyInCompositionError")
            ELSE add_members_loop(x1, Tail(rtcs)))

\* Component.add_members
add_members(x, rtcs) ==
    Call(x, "get_owned_organizations", LAMBDA x1 :
        IF remote.orgs = <<>> THEN Raise(x1, "NotCompositeError")
        ELSE Then(add_members_loop(x1, rtcs), LAMBDA x2 :
             Then(organisations(x2), LAMBDA x3 :
             Call(x3, "add_members", LAMBDA x4 :
                Return(Store(x4, "_orgs", <<>>), "None")))))

\* for rtc in rtcs: if not self.is_member(rtc): raise NotInCompositionError;
\* org.remove_member(rtc_name)
RECURSIVE remove_members_loop(_, _, _)
remove_members_loop(x, rtcs, gone) ==
    IF rtcs = <<>> THEN x
    ELSE Then(is_member(x, Head(rtcs), gone), LAMBDA x1 :
            IF ~IsMember(x1, Head(rtcs), gone)
            THEN Raise(x1, "NotInCompositionError")
            ELSE Call(x1, "remove_member", LAMBDA x2 :
                    remove_members_loop(x2, Tail(rtcs), gone \cup {Head(rtcs)})))

\* Component.remove_members
remove_members(x, rtcs) ==
    Call(x, "get_owned_organizations", LAMBDA x1 :
        IF remote.orgs = <<>> THEN Raise(x1, "NotCompositeError")
        ELSE Then(organisations(x1), LAMBDA x2 :
             Call(x2, "get_members", LAMBDA x3 :
             Then(remove_members_loop(x3, rtcs, {}), LAMBDA x4 :
             Call(Store(x4, "_orgs", <<>>), "get_owned_organizations", LAMBDA x5 :
             CallEach(x5, remote.orgs, "get_organization_id", LAMBDA x6 :
                Return(x6, [k \in DOMAIN remote.orgs |-> remote.orgs[k].org_id])))))))

\* _reset_conf_sets that leaves the active-set pointer as it is.
_reset_conf_sets_KeepsActive(x) == [x EXCEPT !.self._conf_sets = None]

---------------------------------------------------------------------------
\* Component._reset_conf_sets
_reset_conf_sets(x) ==
    [x EXCEPT !.self._conf_sets = None, !.self._active_conf_set = None]

\* Component._reset_composite
_reset_composite(x) ==
    [x EXCEPT !.self._orgs = <<>>, !.self._parent_orgs = <<>>,
              !.self._members = <<>>]

\* Component._reset_data
_reset_data(x) ==
    _reset_composite(_reset_conf_sets(_reset_ports(
        _reset_participating_ecs(_reset_owned_ecs(x)))))

\* Component.reparse
reparse(x) == Return(_parse_profile(_reset_data(x)), "None")

\* Component.reparse_ecs
reparse_ecs(x) == Return(_reset_participating_ecs(_reset_owned_ecs(x)), "None")

---------------------------------------------------------------------------
(* The pushed lifecycle status.                                            *)

\* Component._set_state_in_ec.  The callback is handed ec_handle as the index
\* translation has left it.
_set_state_in_ec(x, ec_handle, new_state, ans) ==
    With(x, LAMBDA x0 :
    Then(ResolveIndex(x0, ec_handle), LAMBDA r :
        IF r.bad THEN Raise(r.x, "BadECIndexError")
        ELSE Then(IF r.coll = "owned" THEN owned_ec_states(r.x, ans)
                  ELSE participating_ec_states(r.x, ans), LAMBDA x1 :
                IF InRange(StatesIn(x1, r.coll), r.idx)
                THEN IF r.coll = "owned"
                     THEN [x1 EXCEPT
                             !.self._owned_ec_states.val[r.idx + 1] = new_state,
                             !.target = [coll |-> r.coll, idx |-> r.idx]]
                     ELSE [x1 EXCEPT
                             !.self._participating_ec_states.val[r.idx + 1] =
                                 new_state,
                             !.target = [coll |-> r.coll, idx |-> r.idx]]
                ELSE [Raise(x1, "IndexError") EXCEPT
                        !.target = [coll |-> r.coll, idx |-> r.idx]])),
    LAMBDA x2 : _call_cb(x2, "rtc_status", <<x2.target.idx, new_state>>))

\* RTCObserver.update_status, kind RTC_STATUS: the status word of the hint
\* becomes the constant for INACTIVE, ACTIVE and ERROR and stays as it is
\* otherwise.
StatusOf(status) ==
    IF status = "INACTIVE" THEN INACTIVE
    ELSE IF status = "ACTIVE" THEN ACTIVE
    ELSE IF status = "ERROR" THEN ERROR
    ELSE status

\* RTCObserver.update_status("RTC_STATUS", "<status>:<ec_handle>")
update_status_rtc(x, status, ec_handle, ans) ==
    _set_state_in_ec(x, ec_handle, StatusOf(status), ans)

\* The event constants of Component (the source's ints as their numerals).
EC_ATTACHED == "11"
EC_DETACHED == "12"
EC_RATE_CHANGED == "13"
EC_STARTUP == "14"
EC_SHUTDOWN == "15"
PORT_ADD == "21"
PORT_REMOVE == "22"
PORT_CONNECT == "23"
PORT_DISCONNECT == "24"
CFG_UPDATE_SET == "31"
CFG_UPDATE_PARAM == "32"
CFG_SET_SET == "33"
CFG_ADD_SET == "34"
CFG_REMOVE_SET == "35"
CFG_ACTIVATE_SET == "36"

\* get_ec nested in Component._ec_event.  After the search of the owned
\* collection, which changes nothing, it tests `not del_ec`; del_ec is bound
\* nowhere in the module, so the test raises NameError.
_ec_event_get_ec(x, ec_handle) == Raise(x, "NameError")

\* Component._ec_event.  obj is what self._obj.get_context(ec_handle)
\* answers.  The statements after the nested get_ec (loc.remove(ec),
\* ec._set_running) follow a call that has raised.  The call of the
\* callbacks names `state`, which is bound nowhere either: NameError.
_ec_event(x, ec_handle, event, obj) ==
    With(x, LAMBDA x1 :
        IF event = EC_ATTACHED
        THEN IF ~x1.self._participating_ecs.some
             THEN Raise(x1, "AttributeError")
             ELSE Call(x1, "get_context", LAMBDA x2 :
                    [x2 EXCEPT !.self._participating_ecs.val =
                        Append(@, [obj |-> obj, handle |-> ec_handle])])
        ELSE IF event \in {EC_DETACHED, EC_STARTUP, EC_SHUTDOWN}
        THEN _ec_event_get_ec(x1, ec_handle)
        ELSE x1,
    LAMBDA x3 : Raise(x3, "NameError"))

\* str.split('.') on the names a configuration event carries.
Split(name) ==
    CASE name = "default.param" -> <<"default", "param">>
      [] name = "alt.param" -> <<"alt", "param">>
      [] OTHER -> <<name>>

\* self._conf.get_configuration_set(name): the remote side raises for a
\* name it has no set for.
get_configuration_set(x, name, F(_)) ==
    Call(x, "get_configuration_set", LAMBDA x1 :
        IF name \in DOMAIN remote.conf_sets THEN F(x1)
        ELSE Raise(x1, "InvalidParameter"))

\* ConfigurationSet._reload: the facade takes the description and the data
\* of the remote set.
_reload(cs, remote_set) ==
    [cs EXCEPT !.description = remote_set.description, !.data = remote_set.data]

_config_event_ReloadAll(x, name, event) ==
    With(x, LAMBDA x1 :
        IF Falsy(x1.self._conf_sets) THEN x1
        ELSE IF event = CFG_UPDATE_SET
        THEN get_configuration_set(x1, name, LAMBDA x2 :
                IF name \notin DOMAIN x2.self._conf_sets.val
                THEN Raise(x2, "KeyError")
                ELSE [x2 EXCEPT !.self._conf_sets.val =
                        [n \in DOMAIN @ |-> _reload(@[n], remote.conf_sets[n])]])
        ELSE IF event = CFG_UPDATE_PARAM
        THEN IF Len(Split(name)) # 2 THEN Raise(x1, "ValueError")
             ELSE Bind(Split(name), LAMBDA parts :
                  get_configuration_set(x1, parts[1], LAMBDA x2 :
                    IF \/ parts[1] \notin DOMAIN x2.self._conf_sets.val
                       \/ parts[2] \notin DOMAIN remote.conf_sets[parts[1]].data
                    THEN Raise(x2, "KeyError")
                    ELSE [x2 EXCEPT !.self._conf_sets.val[parts[1]] =
                            set_param(@, parts[2],
                                      remote.conf_sets[parts[1]].data[parts[2]])]))
        ELSE IF event = CFG_ADD_SET
        THEN get_configuration_set(x1, name, LAMBDA x2 :
                [x2 EXCEPT !.self._conf_sets.val =
                    SetItem(@, name, remote.conf_sets[name])])
        ELSE IF event = CFG_REMOVE_SET
        THEN IF name \notin DOMAIN x1.self._conf_sets.val
             THEN Raise(x1, "KeyError")
             ELSE [x1 EXCEPT !.self._conf_sets.val = DelItem(@, name)]
        ELSE IF event = CFG_ACTIVATE_SET
        THEN [x1 EXCEPT !.self._active_conf_set = Some(name)]
        ELSE x1,
    LAMBDA x3 : _call_cb(x3, "config_event", <<name, event>>))

\* Component._config_event
_config_event(x, name, event) ==
    With(x, LAMBDA x1 :
        IF Falsy(x1.self._conf_sets) THEN x1
        ELSE IF event = CFG_UPDATE_SET
        THEN get_configuration_set(x1, name, LAMBDA x2 :
                IF name \notin DOMAIN x2.self._conf_sets.val
                THEN Raise(x2, "KeyError")
                ELSE [x2 EXCEPT !.self._conf_sets.val[name] =
                                    _reload(@, remote.conf_sets[name])])
        ELSE IF event = CFG_UPDATE_PARAM
        THEN IF Len(Split(name)) # 2 THEN Raise(x1, "ValueError")
             ELSE Bind(Split(name), LAMBDA parts :
                  get_configuration_set(x1, parts[1], LAMBDA x2 :
                    IF \/ parts[1] \notin DOMAIN x2.self._conf_sets.val
                       \/ parts[2] \notin DOMAIN remote.conf_sets[parts[1]].data
                    THEN Raise(x2, "KeyError")
                    ELSE [x2 EXCEPT !.self._conf_sets.val[parts[1]] =
                            set_param(@, parts[2],
                                      remote.conf_sets[parts[1]].data[parts[2]])]))
        ELSE IF event = CFG_ADD_SET
        THEN get_configuration_set(x1, name, LAMBDA x2 :
                [x2 EXCEPT !.self._conf_sets.val =
                    SetItem(@, name, remote.conf_sets[name])])
        ELSE IF event = CFG_REMOVE_SET
        THEN IF name \notin DOMAIN x1.self._conf_sets.val
             THEN Raise(x1, "KeyError")
             ELSE [x1 EXCEPT !.self._conf_sets.val = DelItem(@, name)]
        ELSE IF event = CFG_ACTIVATE_SET
        THEN [x1 EXCEPT !.self._active_conf_set = Some(name)]
        ELSE x1,
    LAMBDA x3 : _call_cb(x3, "config_event", <<name, event>>))

\* get_port_obj nested in Component._port_event: the remote port list is
\* fetched and the profile of each port asked for until one carries the
\* name; ValueError when none does.
get_port_obj(x, port_name, F(_)) ==
    Call(x, "get_ports", LAMBDA x1 :
    Bind(FirstIndex(remote.ports, LAMBDA q : q = port_name), LAMBDA k :
        IF k = 0
        THEN CallEach(x1, remote.ports, "get_port_profile",
                      LAMBDA x2 : Raise(x2, "ValueError"))
        ELSE CallEach(x1, SubSeq(remote.ports, 1, k), "get_port_profile", F)))

\* Component.get_port_by_name on a populated port cache: the index of the
\* first port with the name, 0 for None.
get_port_by_name(x, port_name) ==
    FirstIndex(x.self._ports.val, LAMBDA q : q.name = port_name)

\* list.remove of the element at index k
RemoveAt(list, k) == SubSeq(list, 1, k - 1) \o SubSeq(list, k + 1, Len(list))

_port_event_RefreshAll(x, port_name, event) ==
    With(x, LAMBDA x1 :
        IF Falsy(x1.self._ports) THEN x1
        ELSE IF event = PORT_ADD
        THEN get_port_obj(x1, port_name, LAMBDA x2 :
                [x2 EXCEPT !.self._ports.val = Append(@, parse_port(port_name))])
        ELSE IF event = PORT_REMOVE
        THEN Bind(get_port_by_name(x1, port_name), LAMBDA k :
                IF k = 0 THEN Raise(x1, "ValueError")
                ELSE [x1 EXCEPT !.self._ports.val = RemoveAt(@, k)])
        ELSE IF event \in {PORT_CONNECT, PORT_DISCONNECT}
        THEN Bind(get_port_by_name(x1, port_name), LAMBDA k :
                IF k = 0 THEN Raise(x1, "AttributeError")
                ELSE Call(x1, "get_connector_profiles", LAMBDA x2 :
                        [x2 EXCEPT !.self._ports.val =
                            [j \in DOMAIN @ |-> reparse_connections(@[j])]]))
        ELSE x1,
    LAMBDA x3 : _call_cb(x3, "port_event", <<port_name, event>>))

\* _port_event that tests the `ports` property, which pulls, instead of the
\* slot.
_port_event_ReadsProperty(x, port_name, event) ==
    With(x, LAMBDA x0 : Then(ports(x0), LAMBDA x1 :
        IF Falsy(x1.self._ports) THEN x1
        ELSE IF event = PORT_ADD
        THEN get_port_obj(x1, port_name, LAMBDA x2 :
                [x2 EXCEPT !.self._ports.val = Append(@, parse_port(port_name))])
        ELSE IF event = PORT_REMOVE
        THEN Bind(get_port_by_name(x1, port_name), LAMBDA k :
                IF k = 0 THEN Raise(x1, "ValueError")
                ELSE [x1 EXCEPT !.self._ports.val = RemoveAt(@, k)])
        ELSE IF event \in {PORT_CONNECT, PORT_DISCONNECT}
        THEN Bind(get_port_by_name(x1, port_name), LAMBDA k :
                IF k = 0 THEN Raise(x1, "AttributeError")
                ELSE Call(x1, "get_connector_profiles", LAMBDA x2 :
                        [x2 EXCEPT !.self._ports.val[k] = reparse_connections(@)]))
        ELSE x1),
    LAMBDA x3 : _call_cb(x3, "port_event", <<port_name, event>>))

\* Component._port_event
_port_event(x, port_name, event) ==
    With(x, LAMBDA x1 :
        IF Falsy(x1.self._ports) THEN x1
        ELSE IF event = PORT_ADD
        THEN get_port_obj(x1, port_name, LAMBDA x2 :
                [x2 EXCEPT !.self._ports.val = Append(@, parse_port(port_name))])
        ELSE IF event = PORT_REMOVE
        THEN Bind(get_port_by_name(x1, port_name), LAMBDA k :
                IF k = 0 THEN Raise(x1, "ValueError")
                ELSE [x1 EXCEPT !.self._ports.val = RemoveAt(@, k)])
        ELSE IF event \in {PORT_CONNECT, PORT_DISCONNECT}
        THEN Bind(get_port_by_name(x1, port_name), LAMBDA k :
                IF k = 0 THEN Raise(x1, "AttributeError")
                ELSE Call(x1, "get_connector_profiles", LAMBDA x2 :
                        [x2 EXCEPT !.self._ports.val[k] = reparse_connections(@)]))
        ELSE x1,
    LAMBDA x3 : _call_cb(x3, "port_event", <<port_name, event>>))

\* Component._heartbeat.  now is what time.time() answers.
_heartbeat_ResetsParticipating(x, kind, now) ==
    Then(Store(Store(x, "_participating_ecs", None), "_last_heartbeat", now),
         LAMBDA x1 : _call_cb(x1, "heartbeat", <<kind, x1.self._last_heartbeat>>))

_heartbeat(x, kind, now) ==
    Then(Store(x, "_last_heartbeat", now), LAMBDA x1 :
        _call_cb(x1, "heartbeat", <<kind, x1.self._last_heartbeat>>))

\* Component._fsm_event
_fsm_event(x, kind, hint) == _call_cb(x, "fsm_event", <<kind, hint>>)

\* Component._profile_update
_profile_update(x, items) ==
    Then(_parse_profile(x), LAMBDA x1 : _call_cb(x1, "component_profile", items))

\* RTCObserver.update_status, kind EC_STATUS: the event word of the hint
\* becomes its constant and stays as it is when it is none of the five.
ECEventOf(event) ==
    CASE event = "ATTACHED" -> EC_ATTACHED
      [] event = "DETACHED" -> EC_DETACHED
      [] event = "RATE_CHANGED" -> EC_RATE_CHANGED
      [] event = "STARTUP" -> EC_STARTUP
      [] event = "SHUTDOWN" -> EC_SHUTDOWN
      [] OTHER -> event

\* RTCObserver.update_status, kind PORT_PROFILE
PortEventOf(event) ==
    CASE event = "ADD" -> PORT_ADD
      [] event = "REMOVE" -> PORT_REMOVE
      [] event = "CONNECT" -> PORT_CONNECT
      [] event = "DISCONNECT" -> PORT_DISCONNECT
      [] OTHER -> event

\* RTCObserver.update_status, kind CONFIGURATION
ConfEventOf(event) ==
    CASE event = "UPDATE_CONFIGSET" -> CFG_UPDATE_SET
      [] event = "UPDATE_PARAMETER" -> CFG_UPDATE_PARAM
      [] event = "SET_CONFIG_SET" -> CFG_SET_SET
      [] event = "ADD_CONFIG_SET" -> CFG_ADD_SET
      [] event = "REMOVE_CONFIG_SET" -> CFG_REMOVE_SET
      [] event = "ACTIVATE_CONFIG_SET" -> CFG_ACTIVATE_SET
      [] OTHER -> event

\* RTCObserver.update_status(kind, hint), the hint already split at ':'
\* (at ',' for COMPONENT_PROFILE) into `parts`; obj and now are what the
\* remote side and the clock answer to the handler.
update_status(x, kind, parts, obj, now, ans) ==
    CASE kind = "COMPONENT_PROFILE" -> _profile_update(x, parts)
      [] kind = "RTC_STATUS" -> update_status_rtc(x, parts[1], parts[2], ans)
      [] kind = "EC_STATUS" -> _ec_event(x, parts[2], ECEventOf(parts[1]), obj)
      [] kind = "PORT_PROFILE" -> _port_event(x, parts[2], PortEventOf(parts[1]))
      [] kind = "CONFIGURATION" -> _config_event(x, parts[2], ConfEventOf(parts[1]))
      [] kind \in {"HEARTBEAT", "RTC_HEARTBEAT", "EC_HEARTBEAT"} ->
            _heartbeat(x, kind, now)
      [] kind \in {"FSM_PROFILE", "FSM_STATUS", "FSM_STRUCTURE"} ->
            _fsm_event(x, kind, parts)
      [] OTHER -> Return(x, "None")

---------------------------------------------------------------------------
(* The remote side.                                                        *)

ConfParams == {"param"}

\* One remote configuration set.
RemoteConfSet(value) ==
    [description |-> "set", data |-> [q \in ConfParams |-> value]]

\* What the execution-context calls can answer.
RemoteECs ==
    {[owned |-> o, participating |-> p] :
        o \in InjSeqs(OwnedContexts), p \in InjSeqs(ParticipatingContexts)}

\* A remote side whose ports, configuration and profile stay as they are.
ECRemotes ==
    {[owned |-> ecs.owned, participating |-> ecs.participating,
      ports |-> <<"out">>, connected |-> {},
      conf_sets |-> [n \in {"default"} |-> RemoteConfSet("0")],
      active |-> "default", profile |-> "C10", properties |-> "corba",
      parent |-> "", down |-> {}] : ecs \in RemoteECs}

\* A remote side with at most one context, port and configuration set of
\* each kind, each of which can come and go.  active is the name
\* get_active_configuration_set answers, "" when it raises NotAvailable.
CacheRemotes ==
    {[owned |-> o, participating |-> p, ports |-> q, connected |-> {},
      conf_sets |-> [n \in c |-> RemoteConfSet("0")],
      active |-> IF c = {} THEN "" ELSE "default", profile |-> "C10",
      properties |-> "corba", parent |-> "", down |-> {}] :
        o \in {<<>>, <<"o1">>}, p \in {<<>>, <<"p2">>},
        q \in {<<>>, <<"out">>}, c \in {{}, {"default"}}}

\* The names, parameters and values of the configuration operations.
ConfSetNames == {"default", "alt"}
ParamNames == {"param", "rate"}
ConfValues == {"0", "1"}

\* A remote side with no, one or two configuration sets, each with the
\* parameter "param"; the first of them is the active one.
ConfRemotes ==
    {[owned |-> <<>>, participating |-> <<>>, ports |-> <<"out">>,
      connected |-> {},
      conf_sets |-> [n \in c |-> RemoteConfSet("0")],
      active |-> IF c = {} THEN "" ELSE "default", profile |-> "C10",
      properties |-> "corba", parent |-> "", down |-> {}] :
        c \in {{}, {"default"}, {"default", "alt"}}}

\* A remote side whose profile and configuration values change and whose
\* calls that a push handler issues can be down; the component has a parent.
PushRemotes(values, profiles, downs, conns) ==
    {[owned |-> <<"o1">>, participating |-> <<"p2">>, ports |-> <<"out", "in">>,
      connected |-> c,
      conf_sets |-> [n \in {"default", "alt"} |-> RemoteConfSet(v)],
      active |-> "default", profile |-> f, properties |-> "corba",
      parent |-> "mgr", down |-> d] :
        v \in values, f \in profiles, d \in downs, c \in conns}

\* The remote sides of the profile, EC, heartbeat and FSM notifications.
ProfileRemotes ==
    PushRemotes({"0"}, {"C10", "C11"}, {{}, {"parent.get_component_profile"}},
                {{}})

\* The remote sides of the port and configuration notifications.
PortConfRemotes ==
    PushRemotes(ConfValues, {"C10"},
                {{}, {"get_configuration_set"}, {"get_ports"}}, {{}})

\* The remote sides of the port notifications: the connection state of the
\* ports changes and the port list can be down.
PortRemotes ==
    PushRemotes({"0"}, {"C10"}, {{}, {"get_ports"}},
                {{}, {"in"}, {"out"}, {"out", "in"}})

\* The names of the components that can be members of a composition.
MemberNames == {"m1", "m2"}

\* A remote side that owns no organisation or one, of any members.
CompositeRemotes ==
    {[owned |-> <<>>, participating |-> <<>>, ports |-> <<"out">>,
      connected |-> {},
      conf_sets |-> [n \in {"default"} |-> RemoteConfSet("0")],
      active |-> "default", profile |-> "C10", properties |-> "corba",
      parent |-> "", down |-> {}, orgs |-> o] :
        o \in {<<>>} \cup {<<[org_id |-> "org", members |-> ms]>> :
                                ms \in InjSeqs(MemberNames)}}

\* The remote calls the cached properties issue on a cache miss.
PullCalls ==
    {"get_owned_contexts", "get_participating_contexts", "get_context_handle",
     "get_ports", "get_port_profile", "get_configuration",
     "get_configuration_sets", "get_active_configuration_set"}

\* A remote side with one context, port and configuration set of each kind,
\* on which at most one of the calls of a pull is down.
FailRemotes ==
    {[owned |-> <<"o1">>, participating |-> <<"p2">>, ports |-> <<"out">>,
      connected |-> {},
      conf_sets |-> [n \in {"default"} |-> RemoteConfSet("0")],
      active |-> "default", profile |-> "C10", properties |-> "corba",
      parent |-> "", down |-> d] : d \in {{}} \cup {{c} : c \in PullCalls}}

\* The hints of the push events.
ECEventTexts == {"ATTACHED", "DETACHED", "RATE_CHANGED", "STARTUP", "SHUTDOWN"}
PortEventTexts == {"ADD", "REMOVE", "CONNECT", "DISCONNECT"}
PortEventNames == {"in", "aux"}
ConfEventTexts ==
    {"UPDATE_CONFIGSET", "UPDATE_PARAMETER", "SET_CONFIG_SET", "ADD_CONFIG_SET",
     "REMOVE_CONFIG_SET", "ACTIVATE_CONFIG_SET"}
ConfEventNames == {"alt", "alt.param"}

\* The answers of a remote component that is inactive in every context.
InactiveAnswers == {[alive |-> TRUE, state |-> "INACTIVE_STATE"]}

---------------------------------------------------------------------------
(* Construction.                                                           *)

\* The lifecycle flag of a node that was constructed without push
\* synchronization (TreeNode.__init__).
NotDynamic == FALSE

\* Component.__init__: _reset_data, then _parse_profile.
Constructed ==
    _parse_profile(_reset_data(Ctx(
        [_owned_ecs |-> None, _participating_ecs |-> None,
         _owned_ec_states |-> None, _participating_ec_states |-> None,
         _ports |-> None, _conf_sets |-> None, _active_conf_set |-> None,
         _orgs |-> <<>>, _parent_orgs |-> <<>>, _members |-> <<>>,
         _profile |-> "", _parent_obj |-> "",
         _properties |-> "", _last_heartbeat |-> 0,
         _dynamic |-> NotDynamic, _obs |-> None, _obs_id |-> None])))

\* No thread is inside a cached property.
NoReader == [pc |-> "idle", op |-> "", ret |-> None]

InitWith(remotes) ==
    /\ remote \in remotes
    /\ reader = NoReader
    /\ "exc" \notin DOMAIN Constructed
    /\ self = Constructed.self
    /\ last = [op |-> "__init__", arg |-> 0, ret |-> "None", exc |-> "",
               calls |-> Constructed.calls, locked |-> Constructed.locked,
               asked |-> <<>>, target |-> NoTarget,
               cb |-> <<>>, held |-> -1, current |-> TRUE,
               unlocked |-> {}, prev |-> "", same |-> TRUE]

---------------------------------------------------------------------------
(* One operation on the object.                                            *)

\* The properties a caller reads.
Properties ==
    {"owned_ecs", "participating_ecs", "owned_ec_states",
     "participating_ec_states", "ports", "conf_sets", "state"}

\* The calls that invalidate.
Invalidators ==
    {"reparse", "reparse_ecs", "reparse_owned_ecs", "reparse_participating_ecs",
     "reparse_ports", "reparse_conf_sets"}

\* What ran before op: the same operation, an invalidation, a pushed status
\* that was applied, or anything else.
PrevKind(op) ==
    IF last.op = op THEN "same"
    ELSE IF last.op \in Invalidators THEN "invalidate"
    ELSE IF last.op = "rtc_status" /\ last.exc = "" THEN "push"
    ELSE "other"

\* The handler H runs to its end against the remote side as it is now; the
\* remote side's answers to the per-EC state queries H makes are any of
\* `answers`.
Step(op, arg, answers, H(_)) ==
    \E dry \in {H([e \in Contexts \cup {"nil"} |-> DefaultAnswer])} :
    \E f \in [{dry.asked[k][1] : k \in DOMAIN dry.asked} -> answers] :
    \E r \in {IF dry.asked = <<>> THEN dry
               ELSE H([e \in Contexts \cup {"nil"} |->
                        IF e \in DOMAIN f THEN f[e] ELSE DefaultAnswer])} :
        /\ self' = r.self
        /\ last' = [op |-> op, arg |-> arg, ret |-> r.ret, exc |-> r.exc,
                    calls |-> r.calls, locked |-> r.locked, asked |-> r.asked,
                    target |-> r.target, cb |-> r.cb, held |-> r.held,
                    current |-> r.seen = r.self, unlocked |-> r.unlocked,
                    prev |-> PrevKind(op),
                    same |-> IF /\ op \in Properties /\ last.op = op
                                /\ r.exc = "" /\ last.exc = ""
                             THEN r.ret = last.ret ELSE TRUE]

\* An operation that leaves the remote side as it is.
Run(op, arg, answers, H(_)) ==
    Step(op, arg, answers, H) /\ UNCHANGED <<remote, reader>>

\* A property read returns the slot the property has populated.
ReadOwnedECs ==
    Run("owned_ecs", 0, {},
        LAMBDA ans : Then(owned_ecs(Ctx(self)),
                          LAMBDA x : Return(x, x.self._owned_ecs.val)))

ReadParticipatingECs ==
    Run("participating_ecs", 0, {},
        LAMBDA ans : Then(participating_ecs(Ctx(self)),
                          LAMBDA x : Return(x, x.self._participating_ecs.val)))

ReadOwnedECStates(answers) ==
    Run("owned_ec_states", 0, answers,
        LAMBDA ans : Then(owned_ec_states(Ctx(self), ans),
                          LAMBDA x : Return(x, x.self._owned_ec_states.val)))

ReadParticipatingECStates(answers) ==
    Run("participating_ec_states", 0, answers,
        LAMBDA ans : Then(participating_ec_states(Ctx(self), ans),
                          LAMBDA x : Return(x, x.self._participating_ec_states.val)))

ReadPorts ==
    Run("ports", 0, {},
        LAMBDA ans : Then(ports(Ctx(self)), LAMBDA x : Return(x, x.self._ports.val)))

ReadConfSets ==
    Run("conf_sets", 0, {},
        LAMBDA ans : Then(conf_sets(Ctx(self)),
                          LAMBDA x : Return(x, x.self._conf_sets.val)))

ReadState(answers) == Run("state", 0, answers, LAMBDA ans : state(Ctx(self), ans))

StateInEC(answers) ==
    \E i \in 0..MaxIndex :
        Run("state_in_ec", i, answers, LAMBDA ans : state_in_ec(Ctx(self), i, ans))

ActivateInEC ==
    \E i \in 0..MaxIndex :
        Run("activate_in_ec", i, {}, LAMBDA ans : activate_in_ec(Ctx(self), i))

DeactivateInEC ==
    \E i \in 0..MaxIndex :
        Run("deactivate_in_ec", i, {}, LAMBDA ans : deactivate_in_ec(Ctx(self), i))

ResetInEC ==
    \E i \in 0..MaxIndex :
        Run("reset_in_ec", i, {}, LAMBDA ans : reset_in_ec(Ctx(self), i))

RefreshStateInEC(answers) ==
    \E i \in 0..MaxIndex :
        Run("refresh_state_in_ec", i, answers,
            LAMBDA ans : refresh_state_in_ec(Ctx(self), i, ans))

GetEC ==
    \E h \in 0..MaxHandle :
        Run("get_ec", h, {}, LAMBDA ans : get_ec(Ctx(self), h))

ReadOrganisations ==
    Run("organisations", 0, {},
        LAMBDA ans : Then(organisations(Ctx(self)),
                          LAMBDA x : Return(x, x.self._orgs)))

ReadMembers ==
    Run("members", 0, {},
        LAMBDA ans : Then(members(Ctx(self)),
                          LAMBDA x : Return(x, x.self._members)))

\* The lists of components a membership call is given.
MemberLists == {<<m>> : m \in MemberNames}

\* add_members: the remote organisation has the new members once its
\* add_members call has been issued.
AddMembers ==
    \E rtcs \in MemberLists :
        /\ Step("add_members", rtcs, {}, LAMBDA ans : add_members(Ctx(self), rtcs))
        /\ remote' = IF Count(last'.calls, "add_members") = 1
                     THEN [remote EXCEPT !.orgs[1].members = @ \o rtcs]
                     ELSE remote
        /\ UNCHANGED reader

\* remove_members: the remote organisation has lost a member for each
\* remove_member call that has been issued.
RemoveMembers ==
    \E rtcs \in MemberLists :
        /\ Step("remove_members", rtcs, {},
                LAMBDA ans : remove_members(Ctx(self), rtcs))
        /\ remote' =
            IF Count(last'.calls, "remove_member") > 0
            THEN [remote EXCEPT !.orgs[1].members =
                    SelectSeq(@, LAMBDA m :
                        m \notin {rtcs[k] : k \in
                                    1..Count(last'.calls, "remove_member")})]
            ELSE remote
        /\ UNCHANGED reader

GetECIndex ==
    \E h \in 0..MaxHandle :
        Run("get_ec_index", h, {}, LAMBDA ans : get_ec_index(Ctx(self), h))

Reparse == Run("reparse", 0, {}, LAMBDA ans : reparse(Ctx(self)))

ReparseECs == Run("reparse_ecs", 0, {}, LAMBDA ans : reparse_ecs(Ctx(self)))

ReparseOwnedECs ==
    Run("reparse_owned_ecs", 0, {},
        LAMBDA ans : Return(_reset_owned_ecs(Ctx(self)), "None"))

ReparseParticipatingECs ==
    Run("reparse_participating_ecs", 0, {},
        LAMBDA ans : Return(_reset_participating_ecs(Ctx(self)), "None"))

ReparsePorts ==
    Run("reparse_ports", 0, {}, LAMBDA ans : Return(_reset_ports(Ctx(self)), "None"))

ReparseConfSets ==
    Run("reparse_conf_sets", 0, {},
        LAMBDA ans : Return(_reset_conf_sets(Ctx(self)), "None"))

ReadActiveConfSet ==
    Run("active_conf_set", 0, {}, LAMBDA ans : active_conf_set(Ctx(self)))

ReadActiveConfSetName ==
    Run("active_conf_set_name", 0, {}, LAMBDA ans : active_conf_set_name(Ctx(self)))

\* activate_conf_set; the remote side makes the set its active one when the
\* call reaches it.
ActivateConfSet ==
    \E n \in ConfSetNames :
        /\ Step("activate_conf_set", n, {},
                LAMBDA ans : activate_conf_set(Ctx(self), n))
        /\ remote' = IF last'.exc = "" /\ n \in DOMAIN remote.conf_sets
                     THEN [remote EXCEPT !.active = n] ELSE remote
        /\ UNCHANGED reader

\* set_conf_set_value; the remote side takes the value when the call reaches
\* it.
SetConfSetValue ==
    \E n \in ConfSetNames, q \in ParamNames, v \in ConfValues :
        /\ Step("set_conf_set_value", <<n, q, v>>, {},
                LAMBDA ans : set_conf_set_value(Ctx(self), n, q, v))
        /\ remote' = IF last'.exc = "" /\ n \in DOMAIN remote.conf_sets
                     THEN [remote EXCEPT !.conf_sets[n].data[q] = v] ELSE remote
        /\ UNCHANGED reader

\* The observer receives ("RTC_STATUS", "<status>:<handle>").
PushRtcStatus(texts, answers) ==
    \E status \in texts, h \in 0..MaxHandle :
        Run("rtc_status", <<status, h>>, answers,
            LAMBDA ans : update_status_rtc(Ctx(self), status, h, ans))

\* The properties that return a cache slot.
SlotOf ==
    [owned_ecs |-> "_owned_ecs", participating_ecs |-> "_participating_ecs",
     owned_ec_states |-> "_owned_ec_states",
     participating_ec_states |-> "_participating_ec_states",
     ports |-> "_ports", conf_sets |-> "_conf_sets"]

\* The cached properties whose bodies are
\*     with self._mutex:
\*         if not self._slot: self._slot = <pull>
\*     return self._slot
\* with the name of the step that runs the mutex block of each.
MutexBlockOf ==
    [owned_ecs |-> "owned_ecs (mutex block)",
     participating_ecs |-> "participating_ecs (mutex block)",
     ports |-> "ports (mutex block)", conf_sets |-> "conf_sets (mutex block)"]

\* The mutex block of the property `op`.
MutexBlock(op, x) ==
    CASE op = "owned_ecs" -> owned_ecs(x)
      [] op = "participating_ecs" -> participating_ecs(x)
      [] op = "ports" -> ports(x)
      [] op = "conf_sets" -> conf_sets(x)

\* The reader thread takes the mutex, runs the block of a cached property
\* and releases the mutex; its return statement is still to run.  The other
\* threads take the mutex for their own blocks, so the block is one step.
ReaderLeavesMutex ==
    \E op \in DOMAIN MutexBlockOf :
        /\ reader.pc # "left"
        /\ Step(MutexBlockOf[op], 0, {},
                LAMBDA ans : Return(MutexBlock(op, Ctx(self)), "None"))
        /\ reader' = IF last'.exc = ""
                     THEN [pc |-> "left", op |-> op, ret |-> None]
                     ELSE NoReader
        /\ UNCHANGED remote

\* return self._slot: the reader thread reads the slot, outside the mutex,
\* as it is when the statement runs.
ReaderReturns ==
    /\ reader.pc = "left"
    /\ reader' = [reader EXCEPT !.pc = "done", !.ret = self[SlotOf[reader.op]]]
    /\ UNCHANGED <<self, remote, last>>

\* self._obj.get_context(ec_handle): a context with the handle, a nil
\* reference when the remote side has none.
get_context(ec_handle) ==
    IF \E e \in Contexts : get_context_handle(e) = ec_handle
    THEN {e \in Contexts : get_context_handle(e) = ec_handle}
    ELSE {"nil"}

\* A pushed COMPONENT_PROFILE notification.
PushProfile ==
    \E items \in {<<"instance_name">>} :
        Run("component_profile", items, {},
            LAMBDA ans : update_status(Ctx(self), "COMPONENT_PROFILE", items,
                                       "nil", 0, ans))

\* A pushed EC_STATUS notification.  The participating collection takes at
\* most MaxAttached attached contexts.
PushEcStatus(texts, handles) ==
    \E event \in texts, h \in handles :
    \E obj \in get_context(h) :
        /\ (event = "ATTACHED" /\ self._participating_ecs.some) =>
                Len(self._participating_ecs.val) < MaxAttached
        /\ Run("ec_status", <<event, h>>, {},
               LAMBDA ans : update_status(Ctx(self), "EC_STATUS", <<event, h>>,
                                          obj, 0, ans))

\* A pushed PORT_PROFILE notification.  The port list takes at most MaxPorts
\* ports.
PushPortProfile ==
    \E event \in PortEventTexts, port_name \in PortEventNames :
        /\ (event = "ADD" /\ self._ports.some) => Len(self._ports.val) < MaxPorts
        /\ Run("port_profile", <<event, port_name>>, {},
               LAMBDA ans : update_status(Ctx(self), "PORT_PROFILE",
                                          <<event, port_name>>, "nil", 0, ans))

\* A pushed CONFIGURATION notification.
PushConfiguration ==
    \E event \in ConfEventTexts, name \in ConfEventNames :
        Run("configuration", <<event, name>>, {},
            LAMBDA ans : update_status(Ctx(self), "CONFIGURATION",
                                       <<event, name>>, "nil", 0, ans))

\* A pushed heartbeat notification; the clock does not run backwards and
\* stops at MaxTime.
PushHeartbeat ==
    \E kind \in {"HEARTBEAT", "RTC_HEARTBEAT", "EC_HEARTBEAT"},
       now \in self._last_heartbeat..MaxTime :
        Run("heartbeat", <<kind, now>>, {},
            LAMBDA ans : update_status(Ctx(self), kind, <<>>, "nil", now, ans))

\* A pushed FSM notification.
PushFsm ==
    \E kind \in {"FSM_PROFILE", "FSM_STATUS", "FSM_STRUCTURE"} :
        Run("fsm", <<kind, "hint">>, {},
            LAMBDA ans : update_status(Ctx(self), kind, "hint", "nil", 0, ans))

\* The remote component changes to another of `remotes`.
RemoteChange(remotes) ==
    /\ remote' \in remotes
    /\ remote' # remote
    /\ UNCHANGED <<self, last, reader>>

---------------------------------------------------------------------------
(* The execution-context operations of a component whose remote side is    *)
(* inactive in every context.                                              *)

Init == InitWith(ECRemotes)

Next ==
    \/ ReadState(InactiveAnswers)
    \/ StateInEC(InactiveAnswers)
    \/ ActivateInEC
    \/ GetEC
    \/ ReparseECs
    \/ PushRtcStatus({"ACTIVE", "ERROR"}, InactiveAnswers)

Spec == Init /\ [][Next]_vars

---------------------------------------------------------------------------
(* The merged state over every answer the remote side can give.            *)

\* The six operations that take a logical index.
NextIndex ==
    \/ ActivateInEC
    \/ DeactivateInEC
    \/ ResetInEC
    \/ StateInEC(InactiveAnswers)
    \/ RefreshStateInEC(InactiveAnswers)
    \/ PushRtcStatus({"ACTIVE"}, InactiveAnswers)

\* Remote sides with no or one owned context and one or two participating
\* ones.
IndexRemotes ==
    {r \in ECRemotes : /\ r.owned \in {<<>>, <<"o1">>}
                       /\ r.participating \in {<<"p2">>, <<"p2", "p1">>}}

InitIndex == InitWith(IndexRemotes)

SpecIndex == InitIndex /\ [][NextIndex]_vars

\* The lookups by handle, next to an operation that takes the index.
NextHandle ==
    \/ GetEC
    \/ GetECIndex
    \/ ActivateInEC
    \/ ReparseECs

SpecHandle == Init /\ [][NextHandle]_vars

\* The composition: its reads and the calls that change the membership.
InitComposite == InitWith(CompositeRemotes)

NextComposite ==
    \/ ReadOrganisations
    \/ ReadMembers
    \/ AddMembers
    \/ RemoveMembers

SpecComposite == InitComposite /\ [][NextComposite]_vars

NextMerge ==
    \/ ReadState(RemoteAnswers)
    \/ Reparse

SpecMerge == Init /\ [][NextMerge]_vars

---------------------------------------------------------------------------
(* The cache slots of a component whose remote side changes.               *)

InitCache == InitWith(CacheRemotes)

NextCache ==
    \/ ReadOwnedECs
    \/ ReadParticipatingECs
    \/ ReadOwnedECStates(InactiveAnswers)
    \/ ReadParticipatingECStates(InactiveAnswers)
    \/ ReadPorts
    \/ ReadConfSets
    \/ Reparse
    \/ ReparseECs
    \/ ReparseOwnedECs
    \/ ReparseParticipatingECs
    \/ ReparsePorts
    \/ ReparseConfSets
    \/ PushRtcStatus({"ACTIVE"}, InactiveAnswers)
    \/ RemoteChange(CacheRemotes)

SpecCache == InitCache /\ [][NextCache]_vars

---------------------------------------------------------------------------
(* The configuration set operations.                                       *)

InitConf == InitWith(ConfRemotes)

NextConf ==
    \/ ReadConfSets
    \/ ReadActiveConfSet
    \/ ReadActiveConfSetName
    \/ ActivateConfSet
    \/ SetConfSetValue
    \/ ReparseConfSets

SpecConf == InitConf /\ [][NextConf]_vars

---------------------------------------------------------------------------
(* The push notifications of a component with one owned and one            *)
(* participating context, a parent, and a remote side that changes.        *)

PushOps ==
    {"component_profile", "rtc_status", "ec_status", "port_profile",
     "configuration", "heartbeat", "fsm"}

InitPush == InitWith({r \in ProfileRemotes : r.down = {}})

NextPush ==
    \/ ReadParticipatingECs
    \/ PushProfile
    \/ PushEcStatus(ECEventTexts, 0..MaxHandle)
    \/ PushRtcStatus({"ACTIVE"}, InactiveAnswers)
    \/ PushHeartbeat
    \/ PushFsm
    \/ RemoteChange(ProfileRemotes)

SpecPush == InitPush /\ [][NextPush]_vars

\* The port and configuration notifications of the same component.
\* The notifications that are only passed on, next to the ones that change
\* the participating collection.
NextPass ==
    \/ ReadParticipatingECs
    \/ PushEcStatus(ECEventTexts, 0..MaxHandle)
    \/ PushHeartbeat
    \/ PushFsm

SpecPass == InitPush /\ [][NextPass]_vars

InitPort == InitWith({r \in PortRemotes : r.down = {} /\ r.connected = {}})

NextPort ==
    \/ ReadPorts
    \/ PushPortProfile
    \/ RemoteChange(PortRemotes)

SpecPort == InitPort /\ [][NextPort]_vars

InitPortConf == InitWith({r \in PortConfRemotes : r.down = {}})

NextPortConf ==
    \/ ReadPorts
    \/ ReadConfSets
    \/ PushPortProfile
    \/ PushConfiguration
    \/ RemoteChange(PortConfRemotes)

SpecPortConf == InitPortConf /\ [][NextPortConf]_vars

---------------------------------------------------------------------------
(* The cached properties of a component whose remote calls can fail.       *)

InitFail == InitWith({r \in FailRemotes : r.down = {}})

NextFail ==
    \/ ReadOwnedECs
    \/ ReadParticipatingECs
    \/ ReadPorts
    \/ ReadConfSets
    \/ ReadActiveConfSetName
    \/ Reparse
    \/ RemoteChange(FailRemotes)

SpecFail == InitFail /\ [][NextFail]_vars

---------------------------------------------------------------------------
(* A thread reading the cached properties while another thread invalidates *)
(* them.                                                                   *)

InitRace == InitWith({r \in FailRemotes : r.down = {}})

NextRace ==
    \/ ReaderLeavesMutex
    \/ ReaderReturns
    \/ Reparse
    \/ ReparseECs
    \/ ReparseOwnedECs
    \/ ReparseParticipatingECs
    \/ ReparsePorts
    \/ ReparseConfSets

SpecRace == InitRace /\ [][NextRace]_vars

---------------------------------------------------------------------------
(* The merged state (C1, C2, C3), checked under SpecMerge.                 *)

\* The state collections as `state` has left them, owned first.
CachedStates == self._owned_ec_states.val \o self._participating_ec_states.val

\* The stated precedence: Error > Active > Inactive > Created > Unknown.
Precedence(states) ==
    IF ERROR \in Range(states) THEN ERROR
    ELSE IF ACTIVE \in Range(states) THEN ACTIVE
    ELSE IF INACTIVE \in Range(states) THEN INACTIVE
    ELSE IF CREATED \in Range(states) THEN CREATED
    ELSE UNKNOWN

\* C1: for a non-empty sequence of EC states, each one of the five, `state`
\* returns the highest in the order Error > Active > Inactive > Created >
\* Unknown: Unknown when every EC state is Unknown.
C1_StateIsPrecedence ==
    (last.op = "state" /\ CachedStates # <<>> /\ Range(CachedStates) \subseteq States)
        => last.ret = Precedence(CachedStates)

\* C2: with no owned and no participating execution context (both state
\* collections empty) `state` returns Unknown, not Created.
C2_EmptyIsUnknown ==
    (last.op = "state" /\ self._owned_ec_states.val = <<>>
                       /\ self._participating_ec_states.val = <<>>)
        => last.ret = UNKNOWN /\ last.ret # CREATED

C2_Witness ==
    /\ last.op = "state"
    /\ self._owned_ec_states = Some(<<>>)
    /\ self._participating_ec_states = Some(<<>>)
    /\ last.ret = UNKNOWN

\* C3: the value `state` has returned is the value the merge gives for every
\* reordering of the EC states and every split of them between the owned and
\* the participating collection.
C3_OrderIndependent ==
    last.op = "state" =>
        \A perm \in Permutations(DOMAIN CachedStates) :
            \A k \in 0..Len(CachedStates) :
                MergedState([j \in 1..k |-> CachedStates[perm[j]]],
                            [j \in 1..(Len(CachedStates) - k) |->
                                CachedStates[perm[k + j]]]) = last.ret

C3_Witness ==
    /\ last.op = "state"
    /\ self._owned_ec_states.val = <<UNKNOWN, CREATED>>
    /\ self._participating_ec_states.val = <<ERROR>>
    /\ last.ret = ERROR

---------------------------------------------------------------------------
(* Logical indices and handles (C4, C5), checked under Spec.               *)

\* What an index-taking operation has selected at position j of `ecs`: the
\* context activate_in_ec has called, the state state_in_ec has returned.
Selected(ecs, states, j) ==
    /\ last.exc = ""
    /\ last.target.idx = j
    /\ last.op = "activate_in_ec" => last.target.ec = ecs[j + 1]
    /\ last.op = "state_in_ec" => last.ret = states[j + 1]

\* C4: with n owned and m participating contexts, state_in_ec and
\* activate_in_ec at logical index i select owned context i when i < n,
\* participating context i - n when n <= i < n + m, and raise BadECIndexError
\* when i >= n + m.
C4_IndexResolution ==
    last.op \in {"state_in_ec", "activate_in_ec"} =>
        LET i == last.arg
            n == Len(self._owned_ecs.val)
            m == Len(self._participating_ecs.val)
        IN  IF i < n
            THEN /\ last.target.coll = "owned"
                 /\ Selected(self._owned_ecs.val, self._owned_ec_states.val, i)
            ELSE IF i < n + m
            THEN /\ last.target.coll = "participating"
                 /\ Selected(self._participating_ecs.val,
                             self._participating_ec_states.val, i - n)
            ELSE last.exc = "BadECIndexError"

C4_Witness ==
    /\ last.op = "activate_in_ec"
    /\ last.arg = 5
    /\ Len(self._owned_ecs.val) = 2
    /\ Len(self._participating_ecs.val) = 2
    /\ last.exc = "BadECIndexError"

\* The positions of `ecs` whose context has handle h.
HandleAt(ecs, h) == {k \in DOMAIN ecs : ecs[k].handle = h}

\* get_ec has returned the first context of `ecs` with the handle asked for.
Found(ecs, coll) ==
    /\ last.exc = ""
    /\ last.target.coll = coll
    /\ \E k \in HandleAt(ecs, last.arg) :
        /\ \A j \in HandleAt(ecs, last.arg) : k <= j
        /\ last.target.idx = k - 1
        /\ last.ret = ecs[k]

\* C5: get_ec(h) returns the first owned context with handle h, else the
\* first participating context with handle h, else raises
\* NoECWithHandleError; a handle in both collections gives the owned
\* context, and a return is always a context with handle h.
C5_HandleLookup ==
    last.op = "get_ec" =>
        /\ IF HandleAt(self._owned_ecs.val, last.arg) # {}
           THEN Found(self._owned_ecs.val, "owned")
           ELSE IF HandleAt(self._participating_ecs.val, last.arg) # {}
           THEN Found(self._participating_ecs.val, "participating")
           ELSE last.exc = "NoECWithHandleError"
        /\ last.exc = "" => last.ret.handle = last.arg /\ last.ret.obj \in Contexts

C5_Witness ==
    /\ last.op = "get_ec"
    /\ last.arg = 0
    /\ HandleAt(self._owned_ecs.val, 0) # {}
    /\ HandleAt(self._participating_ecs.val, 0) # {}
    /\ last.target.coll = "owned"
    /\ last.ret.obj = "o1"

---------------------------------------------------------------------------
(* The lazily populated cache (C6, C7), checked under SpecCache.           *)

\* C6: a cached property read twice in a row, with no invalidation between
\* the reads, is pulled from the remote side once: the second read issues no
\* remote call and returns the value of the first, whatever value the remote
\* side has returned, the empty one included.
C6_SecondReadIsCached ==
    (last.op \in DOMAIN SlotOf /\ last.prev = "same")
        => last.calls = <<>> /\ last.same

\* The cache slots.
Slots ==
    {"_owned_ecs", "_owned_ec_states", "_participating_ecs",
     "_participating_ec_states", "_ports", "_conf_sets", "_active_conf_set"}

\* The slots each invalidating call clears.
ClearedBy(op) ==
    CASE op = "reparse" -> Slots
      [] op = "reparse_ecs" ->
            {"_owned_ecs", "_owned_ec_states", "_participating_ecs",
             "_participating_ec_states"}
      [] op = "reparse_owned_ecs" -> {"_owned_ecs", "_owned_ec_states"}
      [] op = "reparse_participating_ecs" ->
            {"_participating_ecs", "_participating_ec_states"}
      [] op = "reparse_ports" -> {"_ports"}
      [] op = "reparse_conf_sets" -> {"_conf_sets", "_active_conf_set"}

\* The remote call that fetches a slot's value, for the slots one call fills.
PullOf ==
    [_owned_ecs |-> "get_owned_contexts",
     _participating_ecs |-> "get_participating_contexts",
     _ports |-> "get_ports", _conf_sets |-> "get_configuration_sets",
     _active_conf_set |-> "get_active_configuration_set"]

\* What the remote side holds now for each of those slots.
RemoteValue ==
    [_owned_ecs |-> [k \in DOMAIN remote.owned |-> ExecutionContext(remote.owned[k])],
     _participating_ecs |->
        [k \in DOMAIN remote.participating |->
            ExecutionContext(remote.participating[k])],
     _ports |-> [k \in DOMAIN remote.ports |-> parse_port(remote.ports[k])],
     _conf_sets |-> remote.conf_sets,
     _active_conf_set |-> remote.active]

\* The execution contexts a state slot runs along.
ContextsOf ==
    [_owned_ec_states |-> "_owned_ecs",
     _participating_ec_states |-> "_participating_ecs"]

\* A step that populates the empty slot f does so from a fresh pull: the
\* slot's remote call is issued in the step and the slot holds what the
\* remote side holds now; a state slot holds one state per cached context,
\* each pulled in the step.  When the step is the read of f's property, the
\* call is issued once and the property returns that value.
PopulatedFresh(f) ==
    (self[f] = None /\ self'[f] # None) =>
        /\ f \in DOMAIN PullOf =>
            /\ Count(last'.calls, PullOf[f]) >= 1
            /\ self'[f] = Some(RemoteValue[f])
        /\ f \in DOMAIN ContextsOf =>
            /\ Len(self'[f].val) = Len(self'[ContextsOf[f]].val)
            /\ Count(last'.calls, "is_alive") = Len(self'[f].val)
            /\ \A k \in DOMAIN last'.asked :
                last'.asked[k][1] = self'[ContextsOf[f]].val[k].obj
        /\ (last'.op \in DOMAIN SlotOf /\ SlotOf[last'.op] = f) =>
            /\ last'.ret = self'[f].val
            /\ f \in DOMAIN PullOf => Count(last'.calls, PullOf[f]) = 1
            /\ f \in DOMAIN ContextsOf =>
                last'.ret = [k \in DOMAIN last'.asked |->
                                _get_ec_state(last'.asked[k][2])]

\* C7: after reparse or a reparse_X call the fields it invalidates are empty;
\* an empty field stays empty until a step reads it, that step pulls it
\* afresh, and the read returns what the remote side holds at that moment.
C7_InvalidateThenFreshPull ==
    /\ [](last.op \in Invalidators => \A f \in ClearedBy(last.op) : self[f] = None)
    /\ [][\A f \in Slots : PopulatedFresh(f)]_vars

C7_Witness ==
    /\ last.op = "ports"
    /\ last.prev = "invalidate"
    /\ Count(last.calls, "get_ports") = 1
    /\ remote.ports = <<"out">>
    /\ last.ret = <<parse_port("out")>>
    /\ self._ports = Some(last.ret)

---------------------------------------------------------------------------
(* The pushed lifecycle status (C8, C9, C10), checked under Spec, where    *)
(* the remote side's contexts stay as they are.                            *)

\* s[k], or "" where s has no position k.
At(s, k) == IF k \in DOMAIN s THEN s[k] ELSE ""

\* The least position of `ecs` with handle h.
FirstAt(ecs, h) ==
    CHOOSE k \in HandleAt(ecs, h) : \A j \in HandleAt(ecs, h) : k <= j

\* Where get_ec(h) finds its context among the component's contexts: the
\* collection and the 0-based position, or no collection.
PlaceOf(h) ==
    IF HandleAt(RemoteValue._owned_ecs, h) # {}
    THEN [coll |-> "owned", idx |-> FirstAt(RemoteValue._owned_ecs, h) - 1]
    ELSE IF HandleAt(RemoteValue._participating_ecs, h) # {}
    THEN [coll |-> "participating",
          idx |-> FirstAt(RemoteValue._participating_ecs, h) - 1]
    ELSE NoTarget

\* The cached state at a place.
CachedAt(s, place) ==
    IF place.coll = "owned" THEN At(s._owned_ec_states.val, place.idx + 1)
    ELSE At(s._participating_ec_states.val, place.idx + 1)

\* C8: a pushed RTC_STATUS for the handle of one of the component's
\* execution contexts issues no remote call, whether the cache is populated
\* or has just been invalidated, and leaves the pushed state as the cached
\* state of that context.
C8_PushIsLocal ==
    (last.op = "rtc_status" /\ PlaceOf(last.arg[2]) # NoTarget) =>
        /\ last.calls = <<>>
        /\ last.exc = ""
        /\ CachedAt(self, PlaceOf(last.arg[2])) = StatusOf(last.arg[1])

\* The places of the cached states.
Places(s) ==
    {[coll |-> "owned", idx |-> k - 1] : k \in DOMAIN s._owned_ec_states.val}
        \cup {[coll |-> "participating", idx |-> k - 1] :
                k \in DOMAIN s._participating_ec_states.val}

\* C9: a pushed state for handle h overwrites the cached state of exactly the
\* context get_ec(h) returns and leaves every other cached state as it was;
\* when no context has handle h the push fails with NoECWithHandleError.
C9_PushOverwritesHandleEC ==
    [][last'.op = "rtc_status" =>
        IF PlaceOf(last'.arg[2]) = NoTarget
        THEN last'.exc = "NoECWithHandleError"
        ELSE /\ last'.exc = ""
             /\ last'.target = PlaceOf(last'.arg[2])
             /\ CachedAt(self', PlaceOf(last'.arg[2])) = StatusOf(last'.arg[1])
             /\ \A place \in Places(self) \ {PlaceOf(last'.arg[2])} :
                    CachedAt(self', place) = CachedAt(self, place)]_vars

\* C10: `state` is the merge of the cached owned and participating states;
\* read right after a pushed status was applied to a populated cache, it is
\* the merge of the states the push has left and issues no remote call.
C10_StateIsMergeOfCache ==
    [][last'.op = "state" =>
        /\ last'.ret = MergedState(self'._owned_ec_states.val,
                                   self'._participating_ec_states.val)
        /\ (/\ last.op = "rtc_status" /\ last.exc = ""
            /\ self._owned_ecs.some /\ self._owned_ec_states.some
            /\ self._participating_ecs.some /\ self._participating_ec_states.some)
            => /\ last'.calls = <<>>
               /\ last'.ret = MergedState(self._owned_ec_states.val,
                                          self._participating_ec_states.val)]_vars

---------------------------------------------------------------------------
(* The rtc_status callback and failures of a push (C11, C17), checked      *)
(* under Spec.                                                             *)

\* C11: the rtc_status callbacks are called with (ec_handle, status):
\* ec_handle is the handle the push notification carried, for a context of
\* the owned collection and of the participating collection alike, and
\* status is one of INACTIVE, ACTIVE, ERROR, UNKNOWN and CREATED.
C11_CallbackGetsPushedHandle ==
    (last.op = "rtc_status" /\ last.exc = "") =>
        /\ last.cb = <<"rtc_status", last.arg[2], StatusOf(last.arg[1])>>
        /\ last.cb[3] \in States

\* C17: a failure while one push event is applied is dropped for that event:
\* nothing is raised out of update_status.
C17_PushFailureIsDropped ==
    last.op = "rtc_status" => last.exc = ""

---------------------------------------------------------------------------
(* The configuration set operations (C18, C19, C20), checked under         *)
(* SpecConf.                                                               *)

\* The (set, parameter) pairs of a cached dictionary of configuration sets.
ParamsOf(sets) == {<<n, q>> : n \in DOMAIN sets, q \in ParamNames} \cap
                  UNION {{<<n, q>> : q \in DOMAIN sets[n].data} : n \in DOMAIN sets}

\* C18: set_conf_set_value(set, param, value), when the cached configuration
\* sets contain `set` with parameter `param`, makes `value` the cached value
\* of that parameter, leaves every other parameter and set and the active
\* set as they were, and issues exactly one remote call, the write; the next
\* read of conf_sets, and of active_conf_set when `set` is the active one,
\* shows the value.
C18_SetValueUpdatesCache ==
    [][/\ (/\ last'.op = "set_conf_set_value"
           /\ self._conf_sets.some
           /\ <<last'.arg[1], last'.arg[2]>> \in ParamsOf(self._conf_sets.val))
          => /\ last'.exc = ""
             /\ self'._conf_sets.val[last'.arg[1]].data[last'.arg[2]] = last'.arg[3]
             /\ ParamsOf(self'._conf_sets.val) = ParamsOf(self._conf_sets.val)
             /\ \A sq \in ParamsOf(self._conf_sets.val) \ {<<last'.arg[1], last'.arg[2]>>} :
                    self'._conf_sets.val[sq[1]].data[sq[2]] =
                        self._conf_sets.val[sq[1]].data[sq[2]]
             /\ self'._active_conf_set = self._active_conf_set
             /\ last'.calls = <<"set_configuration_set_values">>
       /\ (last.op = "set_conf_set_value" /\ last.exc = "" /\ last'.op = "conf_sets")
          => last'.ret[last.arg[1]].data[last.arg[2]] = last.arg[3]
       /\ (/\ last.op = "set_conf_set_value" /\ last.exc = ""
           /\ last'.op = "active_conf_set"
           /\ self._active_conf_set = Some(last.arg[1]))
          => /\ last'.ret.some
             /\ last'.ret.val.data[last.arg[2]] = last.arg[3]]_vars

C18_Witness ==
    /\ last.op = "active_conf_set"
    /\ last.prev = "other"
    /\ last.exc = ""
    /\ last.calls = <<>>
    /\ last.ret.some
    /\ last.ret.val.data["param"] = "1"
    /\ self._active_conf_set = Some("default")
    /\ "alt" \in DOMAIN self._conf_sets.val
    /\ self._conf_sets.val["alt"].data["param"] = "0"

\* The remote calls that write to the remote configuration.
ConfWrites == {"set_configuration_set_values", "activate_configuration_set"}

\* The call has failed without an effect: no remote write or activate call
\* was issued, the remote side is as it was, and every configuration set
\* and active-set name cached before the call is cached as it was.
FailedWithoutEffect ==
    /\ \A k \in DOMAIN last'.calls : last'.calls[k] \notin ConfWrites
    /\ remote' = remote
    /\ ~Falsy(self._conf_sets) => self'._conf_sets = self._conf_sets
    /\ ~Falsy(self._conf_sets) => self'._active_conf_set = self._active_conf_set

\* C19: set_conf_set_value and activate_conf_set raise NoSuchConfSetError
\* when the cached configuration sets do not hold the named set, and
\* set_conf_set_value raises NoSuchConfParamError when the set is there and
\* the parameter is not; in each case no remote write or activate call is
\* issued and the cached values and the active-set name stay as they were.
C19_AbsentSetOrParamFails ==
    [][last'.op \in {"set_conf_set_value", "activate_conf_set"} =>
        LET set_name == IF last'.op = "activate_conf_set"
                        THEN last'.arg ELSE last'.arg[1]
            sets == IF Falsy(self._conf_sets)
                    THEN remote.conf_sets ELSE self._conf_sets.val
        IN  /\ set_name \notin DOMAIN sets =>
                last'.exc = "NoSuchConfSetError" /\ FailedWithoutEffect
            /\ (/\ last'.op = "set_conf_set_value"
                /\ set_name \in DOMAIN sets
                /\ last'.arg[2] \notin DOMAIN sets[set_name].data) =>
                    last'.exc = "NoSuchConfParamError" /\ FailedWithoutEffect]_vars

C19_Witness ==
    /\ last.op = "set_conf_set_value"
    /\ last.arg = <<"default", "rate", "1">>
    /\ last.exc = "NoSuchConfParamError"
    /\ last.calls = <<>>
    /\ self._conf_sets.val["default"].data = [param |-> "0"]
    /\ remote.conf_sets["default"].data = [param |-> "0"]

\* C20: after activate_conf_set(name) has succeeded, the next read of
\* active_conf_set_name returns name and the next read of active_conf_set
\* returns that set, with no reparse or push event in between.
C20_ActivateIsVisible ==
    [][(last.op = "activate_conf_set" /\ last.exc = "") =>
        /\ last'.op = "active_conf_set_name" => last'.ret = last.arg
        /\ last'.op = "active_conf_set" =>
            /\ last'.ret.some
            /\ last'.ret.val = self'._conf_sets.val[last.arg]
            /\ self'._active_conf_set = Some(last.arg)]_vars

---------------------------------------------------------------------------
(* The push handlers (C12, C13, C16), checked under SpecPush.              *)

\* C12: the handler of every push notification assigns the fields of the
\* object inside the mutex only, calls the callbacks after it has left the
\* mutex, and the callbacks see the object as the handler leaves it; a
\* handler that ends without an exception has called the callbacks.
C12_MutateThenCallBack ==
    last.op \in PushOps =>
        /\ last.unlocked = {}
        /\ last.cb # <<>> => (last.held = 0 /\ last.current)
        /\ last.exc = "" => last.cb # <<>>

\* The event constants of the execution-context notifications.
ECEvents == {EC_ATTACHED, EC_DETACHED, EC_RATE_CHANGED, EC_STARTUP, EC_SHUTDOWN}

\* C13: every pushed EC_STATUS notification (ATTACHED, DETACHED,
\* RATE_CHANGED, STARTUP, SHUTDOWN) has the ec_event callbacks called with
\* the handle of the notification and the constant of its event.
C13_EcEventCallsBack ==
    last.op = "ec_status" =>
        /\ last.cb = <<"ec_event", last.arg[2], ECEventOf(last.arg[1])>>
        /\ last.cb[3] \in ECEvents

\* The fields of the object that hold a value (the profile fields always do,
\* a cache slot when it is populated).
Populated(s) ==
    {"_profile", "_parent_obj", "_properties", "_last_heartbeat"}
        \cup {slot \in Slots : s[slot].some}

\* C16: a push notification whose handler fails leaves every field that held
\* a value with that value.
C16_PushCommitsOrNot ==
    [][(last'.op \in PushOps /\ last'.exc # "") =>
            \A field \in Populated(self) : self'[field] = self[field]]_vars

---------------------------------------------------------------------------
(* Failed pulls (C15), checked under SpecFail.                             *)

\* C15: a read of a cached property whose pull fails at any of its remote
\* calls leaves the slot of the property empty, so that the next read pulls
\* again from the first call.
C15_FailedPullLeavesSlotEmpty ==
    [][(/\ last'.op \in {"owned_ecs", "participating_ecs", "ports", "conf_sets"}
        /\ last'.exc # "") =>
            Falsy(self'[SlotOf[last'.op]])]_vars

---------------------------------------------------------------------------
(* A reader against an invalidator (C14), checked under SpecRace.          *)

\* C14: a thread that reads a cached property while another thread
\* invalidates it returns the cached value or a completely pulled one, never
\* the empty marker and never a part of the value.
C14_ReaderSeesOldOrFresh ==
    reader.pc = "done" =>
        /\ reader.ret.some
        /\ reader.ret.val = RemoteValue[SlotOf[reader.op]]

---------------------------------------------------------------------------
(* The execution-context notifications (C21, C22), checked under SpecPush. *)

\* C21: a pushed ATTACHED notification with handle h, on a populated
\* participating collection, appends one context facade with handle h to
\* the collection, leaves the owned collection as it is, and issues no
\* remote call.
C21_AttachedAppendsLocally ==
    [][(/\ last'.op = "ec_status" /\ last'.arg[1] = "ATTACHED"
        /\ remote' = remote
        /\ self._participating_ecs.some) =>
            /\ self'._participating_ecs.some
            /\ Len(self'._participating_ecs.val) =
                    Len(self._participating_ecs.val) + 1
            /\ SubSeq(self'._participating_ecs.val, 1,
                      Len(self._participating_ecs.val)) = self._participating_ecs.val
            /\ self'._participating_ecs.val[Len(self'._participating_ecs.val)].handle
                    = last'.arg[2]
            /\ self'._owned_ecs = self._owned_ecs
            /\ last'.calls = <<>>]_vars

\* The place of the first cached context with handle h, the owned collection
\* searched first; k = 0 when no cached context has the handle.
Holder(s, h) ==
    IF s._owned_ecs.some /\ \E k \in DOMAIN s._owned_ecs.val :
                                s._owned_ecs.val[k].handle = h
    THEN [slot |-> "_owned_ecs",
          k |-> CHOOSE k \in DOMAIN s._owned_ecs.val :
                    /\ s._owned_ecs.val[k].handle = h
                    /\ \A j \in 1..(k - 1) : s._owned_ecs.val[j].handle # h]
    ELSE IF s._participating_ecs.some /\ \E k \in DOMAIN s._participating_ecs.val :
                                s._participating_ecs.val[k].handle = h
    THEN [slot |-> "_participating_ecs",
          k |-> CHOOSE k \in DOMAIN s._participating_ecs.val :
                    /\ s._participating_ecs.val[k].handle = h
                    /\ \A j \in 1..(k - 1) : s._participating_ecs.val[j].handle # h]
    ELSE [slot |-> "", k |-> 0]

\* A context facade with its running flag set.
Running(ec, flag) == [obj |-> ec.obj, handle |-> ec.handle, running |-> flag]

\* C22: a pushed DETACHED notification with handle h removes the cached
\* context with handle h from the collection that holds it and leaves every
\* other context of both collections in place; STARTUP and SHUTDOWN set the
\* running flag of that context to true and to false.
C22_DetachRemovesStartupFlags ==
    [][(/\ last'.op = "ec_status"
        /\ last'.arg[1] \in {"DETACHED", "STARTUP", "SHUTDOWN"}
        /\ remote' = remote
        /\ Holder(self, last'.arg[2]).k # 0) =>
            LET at == Holder(self, last'.arg[2])
                other == IF at.slot = "_owned_ecs" THEN "_participating_ecs"
                         ELSE "_owned_ecs"
                old == self[at.slot].val
            IN  /\ self'[other] = self[other]
                /\ self'[at.slot].some
                /\ self'[at.slot].val =
                    CASE last'.arg[1] = "DETACHED" -> RemoveAt(old, at.k)
                      [] last'.arg[1] = "STARTUP" ->
                            [old EXCEPT ![at.k] = Running(@, TRUE)]
                      [] last'.arg[1] = "SHUTDOWN" ->
                            [old EXCEPT ![at.k] = Running(@, FALSE)]]_vars

---------------------------------------------------------------------------
(* The notifications that are only passed on (C30), checked under SpecPass. *)

\* The slots of the mirror other than the heartbeat timestamp.
CacheSlots == DOMAIN self \ {"_last_heartbeat"}

\* C30: a heartbeat notification changes no slot but the last-heartbeat
\* timestamp; an FSM notification and an EC RATE_CHANGED notification
\* change no slot at all; none of the three issues a remote call.
C30_PassThroughLeavesCache ==
    [][/\ last'.op = "heartbeat" =>
            /\ \A f \in CacheSlots : self'[f] = self[f]
            /\ self'._last_heartbeat = last'.arg[2]
            /\ last'.calls = <<>>
       /\ (\/ last'.op = "fsm"
           \/ last'.op = "ec_status" /\ last'.arg[1] = "RATE_CHANGED") =>
            /\ self' = self
            /\ last'.calls = <<>>]_vars

\* A heartbeat has moved the timestamp of a mirror with a populated cache.
C30_Witness ==
    /\ last.op = "heartbeat"
    /\ self._last_heartbeat = 1
    /\ self._participating_ecs.some

---------------------------------------------------------------------------
(* The configuration notifications (C28), checked under SpecPortConf. *)

\* The set a configuration notification names: the part before the dot.
NamedSet(name) == Split(name)[1]

\* C28: on a populated configuration cache a configuration notification
\* changes only what it names.  Every cached set other than the named one
\* is kept as it is and no set other than the named one appears; the
\* active-set pointer moves only on ACTIVATE_CONFIG_SET.  When the handler
\* returns, UPDATE_CONFIGSET has replaced the named set by the remote one
\* and UPDATE_PARAMETER the named parameter by the remote value, each with
\* one get_configuration_set call; ADD_CONFIG_SET has put the remote set
\* under the name; REMOVE_CONFIG_SET has deleted the name;
\* ACTIVATE_CONFIG_SET has set the pointer to the name, changed no set and
\* issued no remote call.
C28_ConfigEventFrame ==
    [][(/\ last'.op = "configuration"
        /\ remote' = remote
        /\ ~Falsy(self._conf_sets)) =>
        LET event == last'.arg[1]
            name == last'.arg[2]
            old == self._conf_sets.val
            new == self'._conf_sets.val
        IN  /\ self'._conf_sets.some
            /\ \A n \in DOMAIN old \ {NamedSet(name)} :
                    n \in DOMAIN new /\ new[n] = old[n]
            /\ DOMAIN new \subseteq DOMAIN old \cup {NamedSet(name)}
            /\ event # "ACTIVATE_CONFIG_SET" =>
                    self'._active_conf_set = self._active_conf_set
            /\ \A f \in DOMAIN self \ {"_conf_sets", "_active_conf_set"} :
                    self'[f] = self[f]
            /\ last'.exc # "" => self' = self
            /\ last'.exc = "" =>
                CASE event = "UPDATE_CONFIGSET" ->
                        /\ DOMAIN new = DOMAIN old
                        /\ new[name] = remote.conf_sets[name]
                        /\ last'.calls = <<"get_configuration_set">>
                  [] event = "UPDATE_PARAMETER" ->
                        LET cset == Split(name)[1]
                            param == Split(name)[2]
                        IN  /\ DOMAIN new = DOMAIN old
                            /\ new[cset].description = old[cset].description
                            /\ new[cset].data[param] =
                                    remote.conf_sets[cset].data[param]
                            /\ \A q \in DOMAIN old[cset].data \ {param} :
                                    new[cset].data[q] = old[cset].data[q]
                            /\ last'.calls = <<"get_configuration_set">>
                  [] event = "ADD_CONFIG_SET" ->
                        /\ DOMAIN new = DOMAIN old \cup {name}
                        /\ new[name] = remote.conf_sets[name]
                        /\ last'.calls = <<"get_configuration_set">>
                  [] event = "REMOVE_CONFIG_SET" ->
                        /\ DOMAIN new = DOMAIN old \ {name}
                        /\ last'.calls = <<>>
                  [] event = "ACTIVATE_CONFIG_SET" ->
                        /\ new = old
                        /\ self'._active_conf_set = Some(name)
                        /\ last'.calls = <<>>
                  [] OTHER -> self' = self /\ last'.calls = <<>>]_vars

\* A notification has re-pulled the named set, whose remote value differs
\* from the cached value of another set.
C28_Witness ==
    /\ last.op = "configuration" /\ last.exc = ""
    /\ last.arg = <<"UPDATE_CONFIGSET", "alt">>
    /\ ~Falsy(self._conf_sets)
    /\ DOMAIN self._conf_sets.val = {"default", "alt"}
    /\ self._conf_sets.val["alt"] = remote.conf_sets["alt"]
    /\ self._conf_sets.val["default"] # remote.conf_sets["default"]

---------------------------------------------------------------------------
(* The port notifications (C29), checked under SpecPort. *)

\* The index of the first cached port with the name, 0 when there is none.
PortAt(list, name) ==
    IF \E k \in DOMAIN list : list[k].name = name
    THEN CHOOSE k \in DOMAIN list :
            /\ list[k].name = name
            /\ \A j \in 1..(k - 1) : list[j].name # name
    ELSE 0

\* C29: on a populated port cache a port notification touches the port
\* list only.  When the handler returns, ADD has appended the facade of the
\* named port after one remote port-list fetch; REMOVE has dropped the
\* named port and nothing else; CONNECT and DISCONNECT have left the ports
\* of the list as they were, refreshed the connection state of the named
\* port only, and fetched no port list.  A handler that fails leaves the
\* cache as it was.
C29_PortEventKeepsStep ==
    [][(/\ last'.op = "port_profile"
        /\ remote' = remote
        /\ ~Falsy(self._ports)) =>
        LET event == last'.arg[1]
            name == last'.arg[2]
            old == self._ports.val
            new == self'._ports.val
            at == PortAt(old, name)
        IN  /\ self'._ports.some
            /\ \A f \in DOMAIN self \ {"_ports"} : self'[f] = self[f]
            /\ last'.exc # "" => self' = self
            /\ last'.exc = "" =>
                CASE event = "ADD" ->
                        /\ new = Append(old, parse_port(name))
                        /\ Count(last'.calls, "get_ports") = 1
                  [] event = "REMOVE" ->
                        /\ at # 0
                        /\ new = RemoveAt(old, at)
                        /\ last'.calls = <<>>
                  [] event \in {"CONNECT", "DISCONNECT"} ->
                        /\ at # 0
                        /\ Len(new) = Len(old)
                        /\ \A j \in DOMAIN old :
                                /\ new[j].name = old[j].name
                                /\ j # at => new[j] = old[j]
                        /\ new[at].connected = (name \in remote.connected)
                        /\ Count(last'.calls, "get_ports") = 0]_vars

\* A CONNECT notification has refreshed the connection state of the named
\* port, and the cached connection state of another port is out of date.
C29_Witness ==
    /\ last.op = "port_profile" /\ last.exc = ""
    /\ last.arg = <<"CONNECT", "in">>
    /\ ~Falsy(self._ports)
    /\ \E k \in DOMAIN self._ports.val :
            self._ports.val[k] = [name |-> "in", connected |-> TRUE]
    /\ \E k \in DOMAIN self._ports.val :
            self._ports.val[k] = [name |-> "out", connected |-> FALSE]
    /\ "out" \in remote.connected

---------------------------------------------------------------------------
(* One indexing rule (C25), checked under SpecIndex. *)

\* The operations that take a logical index; the pushed RTC status is the
\* force-set-state operation.
IndexedOps ==
    {"activate_in_ec", "deactivate_in_ec", "reset_in_ec", "state_in_ec",
     "refresh_state_in_ec", "rtc_status"}

\* What an indexed operation has made of its index: out of range, or a
\* collection and a local index.
Resolved(r) ==
    IF r.exc = "BadECIndexError" THEN <<"bad">>
    ELSE <<r.target.coll, r.target.idx>>

\* C25: on the same cache and for the same logical index i the six indexed
\* operations make the same of i: all of them raise BadECIndexError, or all
\* of them resolve i to the same collection and the same local index.
C25_OneIndexingRule ==
    [][(last'.op \in IndexedOps /\ remote' = remote) =>
        LET i == IF last'.op = "rtc_status" THEN last'.arg[2] ELSE last'.arg
            x == Ctx(self)
            a == [e \in Contexts \cup {"nil"} |-> DefaultAnswer]
            res == Resolved(last')
        IN  /\ last'.exc \in {"", "BadECIndexError", "IndexError"}
            /\ res # <<"bad">> => res[1] \in {"owned", "participating"}
            /\ Resolved(activate_in_ec(x, i)) = res
            /\ Resolved(deactivate_in_ec(x, i)) = res
            /\ Resolved(reset_in_ec(x, i)) = res
            /\ Resolved(state_in_ec(x, i, a)) = res
            /\ Resolved(refresh_state_in_ec(x, i, a)) = res
            /\ Resolved(_set_state_in_ec(x, i, ACTIVE, a)) = res]_vars

\* refresh_state_in_ec has resolved logical index 1 to the first
\* participating context of a component with one owned context.
C25_Witness ==
    /\ last.op = "refresh_state_in_ec"
    /\ last.arg = 1
    /\ last.exc = ""
    /\ last.target = [coll |-> "participating", idx |-> 0]
    /\ Len(self._owned_ecs.val) = 1
    /\ Len(self._participating_ecs.val) = 2

---------------------------------------------------------------------------
(* Handles and logical indices (C26), checked under SpecHandle. *)

---------------------------------------------------------------------------
(* Membership changes (C23), checked under SpecComposite. *)

\* C23: the read of organisations or of members that follows a successful
\* add_members or remove_members pulls from the remote side and returns the
\* membership the remote side has now.
C23_MembershipChangeInvalidates ==
    [][(/\ last.op \in {"add_members", "remove_members"}
        /\ last.exc = ""
        /\ last'.op \in {"organisations", "members"}) =>
            /\ last'.exc = ""
            /\ last'.calls # <<>>
            /\ last'.op = "organisations" =>
                    last'.ret = [k \in DOMAIN remote.orgs |-> Org(remote.orgs[k])]
            /\ last'.op = "members" =>
                    /\ DOMAIN last'.ret = {remote.orgs[k].org_id : k \in DOMAIN remote.orgs}
                    /\ \A k \in DOMAIN remote.orgs :
                            last'.ret[remote.orgs[k].org_id] = remote.orgs[k].members]_vars

---------------------------------------------------------------------------
(* Remote calls and the mutex (C24), checked under SpecPort. *)

\* C24: no operation issues a remote call inside a `with self._mutex`
\* block: neither the pull of a cached property on a cache miss nor the
\* remote fetch of a push handler.
C24_NoRemoteCallUnderMutex ==
    last.op \in {"ports", "port_profile"} => last.locked = <<>>

---------------------------------------------------------------------------
(* An explicit invalidation next to a pushed status (C27).  reparse_ecs is *)
(* reparse_owned_ecs and then reparse_participating_ecs: two mutex blocks, *)
(* between which another thread's handler can take the mutex.  The reader  *)
(* variable holds the invalidating thread's position and the cache it      *)
(* started from.                                                           *)

\* Component.reparse_ecs up to the end of reparse_owned_ecs.
ReparseEcsResetsOwned ==
    /\ reader.pc = "idle"
    /\ Step("reparse_owned_ecs", 0, {},
            LAMBDA ans : Return(_reset_owned_ecs(Ctx(self)), "None"))
    /\ reader' = [pc |-> "reset", op |-> "reparse_ecs", ret |-> Some(self)]
    /\ UNCHANGED remote

\* RTCObserver.update_status('RTC_STATUS', ...) on the observer's thread,
\* while the invalidating thread is between its two blocks.
PushBetweenResets ==
    /\ reader.pc = "reset"
    /\ \E status \in {"ACTIVE", "ERROR"}, h \in 0..MaxHandle :
           Step("rtc_status", <<status, h>>, InactiveAnswers,
                LAMBDA ans : update_status_rtc(Ctx(self), status, h, ans))
    /\ reader' = [reader EXCEPT !.pc = "pushed"]
    /\ UNCHANGED remote

\* Component.reparse_ecs from reparse_participating_ecs on.
ReparseEcsResetsParticipating ==
    /\ reader.pc \in {"reset", "pushed"}
    /\ Step("reparse_ecs", 0, {},
            LAMBDA ans : Return(_reset_participating_ecs(Ctx(self)), "None"))
    /\ reader' = NoReader
    /\ UNCHANGED remote

InitInterleave == InitWith(IndexRemotes)

NextInterleave ==
    \/ (reader.pc = "idle" /\ ReadState(InactiveAnswers))
    \/ (reader.pc = "idle" /\ PushRtcStatus({"ACTIVE", "ERROR"}, InactiveAnswers))
    \/ ReparseEcsResetsOwned
    \/ PushBetweenResets
    \/ ReparseEcsResetsParticipating

SpecInterleave == InitInterleave /\ [][NextInterleave]_vars

\* The cache after the two operations have run one after the other, from the
\* cache s: the invalidation first, or the push first.
InvalidationThenPush(s, status, h) ==
    update_status_rtc(Ctx(reparse_ecs(Ctx(s)).self), status, h,
                      [e \in Contexts \cup {"nil"} |->
                          [alive |-> TRUE, state |-> "INACTIVE_STATE"]]).self

PushThenInvalidation(s, status, h) ==
    reparse_ecs(Ctx(update_status_rtc(Ctx(s), status, h,
                      [e \in Contexts \cup {"nil"} |->
                          [alive |-> TRUE, state |-> "INACTIVE_STATE"]]).self)).self

\* C27: when reparse_ecs and a pushed status run concurrently on one mirror,
\* the cache the two leave equals the cache that one of the two serial
\* orders leaves.
C27_InterleavingIsSerial ==
    [][(reader.pc = "pushed" /\ reader'.pc = "idle")
       => self' \in {InvalidationThenPush(reader.ret.val, last.arg[1], last.arg[2]),
                     PushThenInvalidation(reader.ret.val, last.arg[1], last.arg[2])}]_vars

---------------------------------------------------------------------------
(* Targeted invalidation (C31): every reparse operation next to the reads  *)
(* that populate the regions, on a remote side whose profile changes.      *)

InvalidateRemotes == PushRemotes({"0"}, {"C10", "C11"}, {{}}, {{}})

InitInvalidate == InitWith(InvalidateRemotes)

NextInvalidate ==
    \/ ReadOwnedECStates(InactiveAnswers)
    \/ ReadParticipatingECStates(InactiveAnswers)
    \/ ReadPorts
    \/ ReadConfSets
    \/ Reparse
    \/ ReparseOwnedECs
    \/ ReparseParticipatingECs
    \/ ReparsePorts
    \/ ReparseConfSets
    \/ RemoteChange(InvalidateRemotes)

SpecInvalidate == InitInvalidate /\ [][NextInvalidate]_vars

\* The slots of the region that each targeted invalidation names.
RegionOf ==
    [reparse_ports |-> {"_ports"},
     reparse_conf_sets |-> {"_conf_sets", "_active_conf_set"},
     reparse_owned_ecs |-> {"_owned_ecs", "_owned_ec_states"},
     reparse_participating_ecs |->
         {"_participating_ecs", "_participating_ec_states"}]

\* The cache s with the slots of a region cleared and all else as it was.
Cleared(s, slots) == [k \in DOMAIN s |-> IF k \in slots THEN None ELSE s[k]]

\* C31: a targeted invalidation clears the slots of its region and leaves
\* every other slot and the profile as they were, with no remote call;
\* reparse clears every region and stores the profile pulled again from the
\* remote side.
C31_InvalidationPerRegion ==
    [][/\ last'.op \in DOMAIN RegionOf =>
            /\ self' = Cleared(self, RegionOf[last'.op])
            /\ last'.calls = <<>>
       /\ (last'.op = "reparse" /\ remote' = remote) =>
            /\ \A op \in DOMAIN RegionOf : \A k \in RegionOf[op] : self'[k] = None
            /\ self'._orgs = <<>> /\ self'._parent_orgs = <<>>
            /\ self'._members = <<>>
            /\ self'._profile = remote.profile
            /\ Count(last'.calls, "get_component_profile") = 1]_vars

\* reparse_ports has cleared the ports of a cache whose other regions are
\* populated, and left them populated.
C31_Witness ==
    /\ last.op = "reparse_ports"
    /\ self._ports = None
    /\ self._conf_sets.some /\ self._active_conf_set.some
    /\ self._owned_ec_states.some /\ self._participating_ec_states.some

---------------------------------------------------------------------------
(* The derivation of a per-EC state (C32), checked under SpecMerge, whose  *)
(* remote side gives every answer.                                         *)

\* The state the specification derives from the remote side's answer.
Derived(a) ==
    IF ~a.alive THEN CREATED
    ELSE CASE a.state = "ACTIVE_STATE" -> ACTIVE
           [] a.state = "ERROR_STATE" -> ERROR
           [] a.state = "INACTIVE_STATE" -> INACTIVE
           [] OTHER -> UNKNOWN

\* The state cached for the context obj.
CachedStateOf(obj) ==
    LET o == {k \in DOMAIN self._owned_ecs.val : self._owned_ecs.val[k].obj = obj}
        p == {k \in DOMAIN self._participating_ecs.val :
                  self._participating_ecs.val[k].obj = obj}
    IN  {self._owned_ec_states.val[k] : k \in o}
            \cup {self._participating_ec_states.val[k] : k \in p}

\* C32: the state that a pull has stored for an EC is Created when the
\* component is not alive in it; when alive it is Active, Error or Inactive
\* for the remote ACTIVE_STATE, ERROR_STATE and INACTIVE_STATE and Unknown
\* for any other remote value.
C32_PulledStateIsDerived ==
    (last.op = "state" /\ last.exc = "") =>
        \A k \in DOMAIN last.asked :
            CachedStateOf(last.asked[k][1]) = {Derived(last.asked[k][2])}

\* A pull in which the component was not alive in one EC and alive with an
\* unrecognised remote value in another.
C32_Witness ==
    /\ last.op = "state" /\ last.exc = ""
    /\ \E j, k \in DOMAIN last.asked :
           /\ ~last.asked[j][2].alive
           /\ last.asked[k][2] = [alive |-> TRUE, state |-> "CREATED_STATE"]
           /\ CachedStateOf(last.asked[j][1]) = {CREATED}
           /\ CachedStateOf(last.asked[k][1]) = {UNKNOWN}

---------------------------------------------------------------------------
(* The refreshed state of one EC (C33): refresh_state_in_ec and            *)
(* state_in_ec on a cache that the attach notifications lengthen, against  *)
(* a remote side whose answer changes between the queries.                 *)

RefreshAnswers ==
    {[alive |-> TRUE, state |-> "INACTIVE_STATE"],
     [alive |-> TRUE, state |-> "ACTIVE_STATE"]}

NextRefresh ==
    \/ RefreshStateInEC(RefreshAnswers)
    \/ StateInEC(InactiveAnswers)
    \/ PushEcStatus({"ATTACHED"}, {1})
    \/ ReparseECs

SpecRefresh == InitIndex /\ [][NextRefresh]_vars

\* C33: refresh_state_in_ec(i) for a valid logical index i queries the
\* remote state of the resolved EC even when a state is cached, stores the
\* answer as that EC's cached state and leaves the cached states of the
\* other ECs as they were, and returns it; state_in_ec(i) right after it
\* returns the same value.
C33_RefreshStoresAndReturns ==
    [][(last'.op = "refresh_state_in_ec" /\ last'.exc # "BadECIndexError") =>
        LET i == last'.arg
            coll == last'.target.coll
            k == last'.target.idx + 1
            before == IF coll = "owned" THEN self._owned_ec_states
                      ELSE self._participating_ec_states
            after == IF coll = "owned" THEN self'._owned_ec_states
                     ELSE self'._participating_ec_states
            other == IF coll = "owned" THEN "_participating_ec_states"
                     ELSE "_owned_ec_states"
        IN  /\ last'.exc = ""
            /\ Count(last'.calls, "get_component_state") >= 1
            /\ after.some /\ k \in DOMAIN after.val
            /\ after.val[k] = last'.ret
            /\ last'.ret = _get_ec_state(last'.asked[1][2])
            /\ ~Falsy(before) =>
                 /\ DOMAIN after.val = DOMAIN before.val
                 /\ \A j \in DOMAIN before.val \ {k} : after.val[j] = before.val[j]
            /\ self'[other] = self[other]
            /\ state_in_ec(Ctx(self'), i,
                           [e \in Contexts \cup {"nil"} |-> DefaultAnswer]).ret
                 = last'.ret]_vars

---------------------------------------------------------------------------
(* The alignment of the contexts and their states (C34), checked under     *)
(* SpecRefresh.                                                            *)

\* C34: whenever an EC collection and its state collection are both
\* populated they have the same length, position k of the one being the
\* state of position k of the other, after any sequence of pulls, reparses
\* and Attached notifications.
C34_StatesAlignedWithECs ==
    /\ (self._owned_ecs.some /\ self._owned_ec_states.some) =>
            Len(self._owned_ec_states.val) = Len(self._owned_ecs.val)
    /\ (self._participating_ecs.some /\ self._participating_ec_states.some) =>
            Len(self._participating_ec_states.val)
                = Len(self._participating_ecs.val)

---------------------------------------------------------------------------
(* The range of the cached states (C35): the pushed status, with a status  *)
(* word that the observer does not translate, next to the reads.           *)

NextStatus ==
    \/ PushRtcStatus({"INACTIVE", "ACTIVE", "ERROR", "UNKNOWN"}, InactiveAnswers)
    \/ StateInEC(InactiveAnswers)
    \/ ReadState(InactiveAnswers)
    \/ ReparseECs

SpecStatus == InitIndex /\ [][NextStatus]_vars

\* C35: every cached per-EC state, and every value that state_in_ec and
\* `state` return, is one of Created, Inactive, Active, Error and Unknown,
\* also after a pushed status whose word is none of INACTIVE, ACTIVE, ERROR.
C35_StatesInEnumeration ==
    /\ Range(self._owned_ec_states.val) \subseteq States
    /\ Range(self._participating_ec_states.val) \subseteq States
    /\ (last.op \in {"state_in_ec", "state"} /\ last.exc = "") =>
            last.ret \in States

---------------------------------------------------------------------------
(* The active-set pointer (C36): the notifications that add, remove and    *)
(* activate a configuration set, next to the reads and the reparse.        *)

\* A pushed CONFIGURATION notification about a whole set.
PushConfSetEvent ==
    \E event \in {"ADD_CONFIG_SET", "REMOVE_CONFIG_SET", "ACTIVATE_CONFIG_SET"},
       name \in ConfSetNames :
        Run("configuration", <<event, name>>, {},
            LAMBDA ans : update_status(Ctx(self), "CONFIGURATION",
                                       <<event, name>>, "nil", 0, ans))

NextActive ==
    \/ ReadConfSets
    \/ ReadActiveConfSet
    \/ ReadActiveConfSetName
    \/ ReparseConfSets
    \/ PushConfSetEvent

SpecActive == InitPortConf /\ [][NextActive]_vars

\* C36: the active-set pointer is empty or names a set of the cached
\* configuration sets, and active_conf_set does not fail, after any sequence
\* of pulls, reparses and AddSet, RemoveSet and ActivateSet notifications.
C36_ActivePointerNamesCachedSet ==
    /\ ~FalsyStr(self._active_conf_set) =>
            /\ self._conf_sets.some
            /\ self._active_conf_set.val \in DOMAIN self._conf_sets.val
    /\ last.op = "active_conf_set" => last.exc = ""

---------------------------------------------------------------------------
(* Notifications on an empty slot (C37): the port and configuration        *)
(* notifications next to the reads and the invalidations, on a remote side *)
(* whose configuration values change.                                      *)

EmptySlotRemotes == PushRemotes(ConfValues, {"C10"}, {{}}, {{}})

InitEmptySlot == InitWith(EmptySlotRemotes)

NextEmptySlot ==
    \/ ReadPorts
    \/ ReadConfSets
    \/ ReparsePorts
    \/ ReparseConfSets
    \/ PushPortProfile
    \/ PushConfiguration
    \/ RemoteChange(EmptySlotRemotes)

SpecEmptySlot == InitEmptySlot /\ [][NextEmptySlot]_vars

\* C37: a port or configuration notification that arrives while its slot is
\* None leaves the whole cache as it was, issues no remote call and calls
\* the callbacks with the name and the event; the read that follows pulls
\* the list or the sets as the remote side has them now.
C37_EventOnEmptySlot ==
    [][(/\ last'.op \in {"port_profile", "configuration"}
        /\ remote' = remote
        /\ (IF last'.op = "port_profile" THEN self._ports
            ELSE self._conf_sets) = None) =>
        /\ self' = self
        /\ last'.calls = <<>>
        /\ last'.exc = ""
        /\ Len(last'.cb) = 3
        /\ last'.cb[1] = (IF last'.op = "port_profile" THEN "port_event"
                          ELSE "config_event")
        /\ last'.cb[2] = last'.arg[2]
        /\ IF last'.op = "port_profile"
           THEN LET r == ports(Ctx(self'))
                IN  /\ Count(r.calls, "get_ports") = 1
                    /\ r.self._ports =
                         Some([k \in 1..Len(remote.ports) |->
                                  [name |-> remote.ports[k],
                                   connected |-> remote.ports[k] \in remote.connected]])
           ELSE LET r == conf_sets(Ctx(self'))
                IN  /\ Count(r.calls, "get_configuration_sets") = 1
                    /\ r.self._conf_sets = Some(remote.conf_sets)
                    /\ r.self._active_conf_set = Some(remote.active)]_vars

\* A port notification has arrived after reparse_ports had emptied a
\* populated slot, and its callback has been called.
C37_Witness ==
    /\ last.op = "port_profile" /\ last.prev = "invalidate"
    /\ self._ports = None
    /\ last.exc = "" /\ last.calls = <<>>
    /\ last.cb = <<"port_event", "in", PORT_ADD>>
    /\ self._conf_sets.some

---------------------------------------------------------------------------
(* Push synchronization (C38).  The remote side accepts or refuses the     *)
(* registration and the removal of the observer's service profile; the id  *)
(* of a registration is the uuid drawn for it.                             *)

ObserverIds == {"u1", "u2"}

\* _enable_dynamic that sets the flag before it knows the remote side's
\* answer.
_enable_dynamic_FlagFirst(x, enable, uuid_val, res, now) ==
    IF enable
    THEN Call(Store(x, "_dynamic", TRUE), "get_configuration", LAMBDA x1 :
         Call(x1, "add_service_profile", LAMBDA x2 :
            IF res
            THEN Return(Store(Store(Store(x2, "_obs", Some("RTCObserver")),
                                    "_obs_id", Some(uuid_val)),
                              "_last_heartbeat", now), "None")
            ELSE Raise(x2, "InvalidSdoServiceError")))
    ELSE Call(x, "get_configuration", LAMBDA x1 :
         Call(x1, "remove_service_profile", LAMBDA x2 :
            IF res
            THEN Return(Store(Store(Store(x2, "_dynamic", FALSE), "_obs", None),
                              "_obs_id", None), "None")
            ELSE Return(x2, "None")))

\* Component._enable_dynamic.  uuid_val is what uuid.uuid4() gives, res the
\* remote side's answer to add_service_profile or remove_service_profile,
\* now what time.time() answers.
_enable_dynamic(x, enable, uuid_val, res, now) ==
    IF enable
    THEN Call(x, "get_configuration", LAMBDA x1 :
         Call(x1, "add_service_profile", LAMBDA x2 :
            IF res
            THEN Return(Store(Store(Store(Store(x2, "_dynamic", TRUE),
                                          "_obs", Some("RTCObserver")),
                                    "_obs_id", Some(uuid_val)),
                              "_last_heartbeat", now), "None")
            ELSE Raise(x2, "InvalidSdoServiceError")))
    ELSE Call(x, "get_configuration", LAMBDA x1 :
         Call(x1, "remove_service_profile", LAMBDA x2 :
            IF res
            THEN Return(Store(Store(Store(x2, "_dynamic", FALSE), "_obs", None),
                              "_obs_id", None), "None")
            ELSE Return(x2, "None")))

\* _enable_dynamic(True)
EnableDynamic ==
    \E uuid_val \in ObserverIds, res \in BOOLEAN,
       now \in self._last_heartbeat..MaxTime :
        Run("enable_dynamic", <<uuid_val, IF res THEN "accepted" ELSE "refused">>,
            {}, LAMBDA ans : _enable_dynamic(Ctx(self), TRUE, uuid_val, res, now))

\* _enable_dynamic(False)
DisableDynamic ==
    \E res \in BOOLEAN :
        Run("disable_dynamic", <<"", IF res THEN "accepted" ELSE "refused">>,
            {}, LAMBDA ans : _enable_dynamic(Ctx(self), FALSE, "", res, 0))

NextDynamic ==
    \/ EnableDynamic
    \/ DisableDynamic
    \/ PushHeartbeat
    \/ RemoteChange(ProfileRemotes)

SpecDynamic == InitPush /\ [][NextDynamic]_vars

\* C38: the flag is true exactly when an observer and its id are recorded.
\* Enabling that the remote side accepts sets the flag and records the
\* observer and the id of the registration; enabling that it refuses fails
\* with the invalid-service error and leaves the three as they were;
\* disabling clears the three when the removal succeeds and leaves them as
\* they were when it does not.
C38_DynamicLifecycle ==
    /\ [](/\ self._dynamic <=> self._obs.some
          /\ self._dynamic <=> self._obs_id.some)
    /\ [][(last'.op \in {"enable_dynamic", "disable_dynamic"}
           /\ remote' = remote /\ last'.exc # "TransportError") =>
            LET kept == /\ self'._dynamic = self._dynamic
                        /\ self'._obs = self._obs
                        /\ self'._obs_id = self._obs_id
            IN  /\ last'.op = "enable_dynamic" /\ last'.arg[2] = "accepted" =>
                    /\ last'.exc = ""
                    /\ self'._dynamic
                    /\ self'._obs.some
                    /\ self'._obs_id = Some(last'.arg[1])
                    /\ Count(last'.calls, "add_service_profile") = 1
                /\ last'.op = "enable_dynamic" /\ last'.arg[2] = "refused" =>
                    /\ last'.exc = "InvalidSdoServiceError"
                    /\ kept
                /\ last'.op = "disable_dynamic" /\ last'.arg[2] = "accepted" =>
                    /\ last'.exc = ""
                    /\ ~self'._dynamic
                    /\ self'._obs = None /\ self'._obs_id = None
                /\ last'.op = "disable_dynamic" /\ last'.arg[2] = "refused" =>
                    /\ last'.exc = ""
                    /\ kept]_vars

\* A registration has been refused while an earlier one was recorded.
C38_Witness ==
    /\ last.op = "enable_dynamic" /\ last.arg = <<"u2", "refused">>
    /\ last.exc = "InvalidSdoServiceError"
    /\ self._dynamic /\ self._obs_id = Some("u1")

====
